---- MODULE Spec2Model ----
(***************************************************************************)
(* A model of rokuecp (src/rokuecp.c, src/rokuecp.h): the ECP client       *)
(* library for Roku devices.                                               *)
(*                                                                         *)
(* Three specifications share the definitions below:                       *)
(*   SpecFill  fillFromXML and strlcpy over explicit character buffers;    *)
(*   Spec      one call of an API function on caller-held records;         *)
(*   SpecDisc  findRokuDevices, its callbacks and its main loop            *)
(*             (FairSpecDisc adds the scheduling of the GLib main loop).   *)
(*                                                                         *)
(* Text is a sequence of one-character strings; a C buffer is a sequence   *)
(* of cells, each a character or NUL.  Element, attribute and key names    *)
(* are only ever compared for equality (strcmp(..) == 0), so they are      *)
(* TLA+ strings.                                                           *)
(***************************************************************************)
EXTENDS Integers, Sequences, FiniteSets, TLC

VARIABLES
    noStrlcpy,      \* build: TRUE when NO_STRLCPY is defined (fallback strlcpy)
    fpc,            \* SpecFill: "start" | "done" | "off"
    fnode,          \* SpecFill: the parentElement argument
    fattr,          \* SpecFill: the attrMode argument
    fmap,           \* SpecFill: the map argument
    fmem0,          \* SpecFill: the buffers before the call
    fmem,           \* SpecFill: the buffers (after the call once fpc = "done")
    pc,             \* Spec: "idle" | "returned" | "crashed" | "off"
    device,         \* Spec: the caller's RokuDevice record
    channel,        \* Spec: the caller's RokuExtTVChannel record
    call,           \* Spec: the call made, its inputs and what it did
    dpc,            \* SpecDisc: position of findRokuDevices
    disc            \* SpecDisc: callbackData, deviceList and the main loop

vars == <<noStrlcpy, fpc, fnode, fattr, fmap, fmem0, fmem,
          pc, device, channel, call, dpc, disc>>

fillVars == <<fpc, fnode, fattr, fmap, fmem0, fmem>>
apiVars  == <<pc, device, channel, call>>
discVars == <<dpc, disc>>

(***************************************************************************)
(* Characters, C strings and buffers                                       *)
(***************************************************************************)
NUL == "NUL"            \* the terminator '\0'
JUNK == "?"             \* a cell that was never written

Min(a, b) == IF a < b THEN a ELSE b

Take(s, n) == SubSeq(s, 1, Min(n, Len(s)))

\* The C string held by a buffer: the cells before the first NUL.
RECURSIVE CStrFrom(_, _)
CStrFrom(buf, i) ==
    IF i > Len(buf) \/ buf[i] = NUL THEN <<>>
    ELSE <<buf[i]>> \o CStrFrom(buf, i + 1)

CStr(buf) == CStrFrom(buf, 1)

\* A buffer of len cells holding the C string s, junk after its terminator.
BufOf(s, len) ==
    [i \in 1..len |-> IF i <= Len(s) THEN s[i]
                      ELSE IF i = Len(s) + 1 THEN NUL ELSE JUNK]

\* A buffer of len cells that was never written.
JunkBuf(len) == [i \in 1..len |-> JUNK]

(***************************************************************************)
(* strlcpy (src/rokuecp.c:24-35 and the platform's own)                    *)
(***************************************************************************)
\* The platform strlcpy: at most size-1 characters, then the terminator.
\* Cells are numbered from 1, so C index k is cell k+1.
strlcpyPlatform(dest, src, size) ==
    LET n == Min(Len(src), size - 1)
    IN  [i \in 1..Len(dest) |->
            IF i <= n THEN src[i]
            ELSE IF i = n + 1 THEN NUL
            ELSE dest[i]]

\* The fallback: strncpy(dest, src, size-1) pads with NUL up to size-1
\* cells, then dest[size-1] = '\0'.
strlcpyFallback(dest, src, size) ==
    [i \in 1..Len(dest) |->
        IF i <= size - 1
        THEN (IF i <= Len(src) THEN src[i] ELSE NUL)
        ELSE IF i = size THEN NUL
        ELSE dest[i]]

\* Mutant: an unbounded copy (strcpy), as far as the modelled memory goes.
strlcpyUnbounded(dest, src, size, fallback) ==
    [i \in 1..Len(dest) |->
        IF i <= Len(src) THEN src[i]
        ELSE IF i = Len(src) + 1 THEN NUL
        ELSE dest[i]]

strlcpy(dest, src, size, fallback) ==
    IF fallback THEN strlcpyFallback(dest, src, size)
    ELSE strlcpyPlatform(dest, src, size)

(***************************************************************************)
(* XML nodes as libxml2 hands them to the library                          *)
(*   type      "element" | "text" | "comment"                              *)
(*   name      node->name ("text" and "comment" for those node types)      *)
(*   content   what xmlNodeGetContent returns: text, or NULL               *)
(*   attrs     the attributes: a function from names to text               *)
(*   children  node->children .. ->next as a sequence                      *)
(***************************************************************************)
\* NULL is a value no text equals (texts hold one-character strings).
NULL == <<"NULL">>

NoAttrs == [n \in {} |-> <<>>]

Elem(name, content, attrs, children) ==
    [type |-> "element", name |-> name, content |-> content,
     attrs |-> attrs, children |-> children]

Leaf(name, content) == Elem(name, content, NoAttrs, <<>>)

TextNode == [type |-> "text", name |-> "text", content |-> <<" ">>,
             attrs |-> NoAttrs, children |-> <<>>]

CommentNode == [type |-> "comment", name |-> "comment", content |-> <<"c">>,
                attrs |-> NoAttrs, children |-> <<>>]

(***************************************************************************)
(* fillFromXML (src/rokuecp.c:126-156)                                     *)
(* map is a sequence of [elementName, destString, destSize]; destString    *)
(* names a buffer of mem, the memory the destinations live in.             *)
(***************************************************************************)
MapEntry(name, dest, size) ==
    [elementName |-> name, destString |-> dest, destSize |-> size]

\* Mutant: the first loop (lines 128-130) left out.
fillResetNone(map, mem) == mem

\* Lines 128-130: *map[i].destString = '\0' for every mapping.
fillReset(map, mem) ==
    [b \in DOMAIN mem |->
        IF \E i \in 1..Len(map) : map[i].destString = b
        THEN [mem[b] EXCEPT ![1] = NUL]
        ELSE mem[b]]

\* Lines 135-140: the attribute loop, from mapping i on.
RECURSIVE fillAttrs(_, _, _, _, _)
fillAttrs(node, map, mem, i, fallback) ==
    IF i > Len(map) THEN mem
    ELSE LET m == map[i]
             found == m.elementName \in DOMAIN node.attrs
             mem2 == IF found
                     THEN [mem EXCEPT ![m.destString] =
                              strlcpy(mem[m.destString], node.attrs[m.elementName],
                                      m.destSize, fallback)]
                     ELSE mem
         IN  fillAttrs(node, map, mem2, i + 1, fallback)

\* Lines 144-153: the first mapping, from i on, whose name is the node's.
RECURSIVE firstMatch(_, _, _)
firstMatch(map, name, i) ==
    IF i > Len(map) THEN 0
    ELSE IF map[i].elementName = name THEN i
    ELSE firstMatch(map, name, i + 1)

\* Lines 143-154: the child loop, from child k on.
RECURSIVE fillChildren(_, _, _, _, _)
fillChildren(kids, map, mem, k, fallback) ==
    IF k > Len(kids) THEN mem
    ELSE LET node == kids[k]
             i == firstMatch(map, node.name, 1)
             mem2 == IF i # 0 /\ node.content # NULL
                     THEN [mem EXCEPT ![map[i].destString] =
                              strlcpy(mem[map[i].destString], node.content,
                                      map[i].destSize, fallback)]
                     ELSE mem
         IN  fillChildren(kids, map, mem2, k + 1, fallback)

fillFromXML(parentElement, attrMode, map, mem, fallback) ==
    LET mem1 == fillReset(map, mem)
    IN  IF attrMode
        THEN fillAttrs(parentElement, map, mem1, 1, fallback)
        ELSE fillChildren(parentElement.children, map, mem1, 1, fallback)

(***************************************************************************)
(* SpecFill: fillFromXML applied to inputs drawn from bounded sets         *)
(***************************************************************************)
MaxCap == 3         \* largest destSize tried
MaxSrcLen == 4      \* longest source text tried
MaxKids == 2        \* most child nodes of the container
Guard == 2          \* cells modelled after the largest destination

Alphabet == <<"p", "q", "r", "s", "t", "u">>

FillTexts == {Take(Alphabet, n) : n \in 0..Min(MaxSrcLen, Len(Alphabet))}

FillNames == {"id", "type"}

FillBufs == {"a", "b"}

FillKidNodes ==
    {Leaf(n, c) : n \in FillNames, c \in {<<>>, Take(Alphabet, MaxSrcLen), <<"z">>, NULL}}
      \cup {TextNode}

FillKids == UNION {[1..n -> FillKidNodes] : n \in 0..MaxKids}

FillAttrSets ==
    UNION {[D -> FillTexts] : D \in SUBSET FillNames}

\* The container: children in child-element mode, attributes in attribute mode.
FillChildContainers == {Elem("container", <<>>, NoAttrs, k) : k \in FillKids}

FillAttrContainers == {Elem("container", <<>>, a, <<>>) : a \in FillAttrSets}

\* Two mappings onto the two buffers; "version" never occurs in a document.
FillMaps ==
    {<<MapEntry(n1, "a", c1), MapEntry(n2, "b", c2)>> :
        n1 \in FillNames, n2 \in {"type", "version"},
        c1 \in 1..MaxCap, c2 \in {1, MaxCap}}

\* What a destination may hold before the call: never written, or the
\* result of a previous call.
FillPrior == {JunkBuf(MaxCap + Guard), BufOf(<<"o", "l", "d">>, MaxCap + Guard)}

InitFill ==
    /\ noStrlcpy \in BOOLEAN
    /\ fpc = "start"
    /\ fattr \in BOOLEAN
    /\ fnode \in (IF fattr THEN FillAttrContainers ELSE FillChildContainers)
    /\ fmap \in FillMaps
    /\ fmem0 \in {[b \in FillBufs |-> p] : p \in FillPrior}
    /\ fmem = fmem0
    /\ pc = "off" /\ device = <<>> /\ channel = <<>> /\ call = <<>>
    /\ dpc = "off" /\ disc = <<>>

Fill ==
    /\ fpc = "start"
    /\ fmem' = fillFromXML(fnode, fattr, fmap, fmem, noStrlcpy)
    /\ fpc' = "done"
    /\ UNCHANGED <<noStrlcpy, fnode, fattr, fmap, fmem0>>
    /\ UNCHANGED apiVars
    /\ UNCHANGED discVars

NextFill == Fill

SpecFill == InitFill /\ [][NextFill]_vars

(***************************************************************************)
(* The HTTP transport and sendRequest (src/rokuecp.c:83-108)               *)
(* An outcome of soup_session_send_and_read is either a GError with its    *)
(* code and no response, or an HTTP status with the response body.         *)
(***************************************************************************)
SOUP_STATUS_OK == 200
SOUP_STATUS_UNAUTHORIZED == 401

\* A response body as the XML parser sees it:
\*   "null"       no GBytes at all (the transport failed)
\*   "malformed"  xmlReadDoc returns NULL
\*   "noroot"     xmlDocGetRootElement returns NULL
\*   "xml"        a document with the root element root
NoRoot == Elem("none", NULL, NoAttrs, <<>>)
NullBody == [kind |-> "null", root |-> NoRoot]
MalformedBody == [kind |-> "malformed", root |-> NoRoot]
NoRootBody == [kind |-> "noroot", root |-> NoRoot]
XmlBody(root) == [kind |-> "xml", root |-> root]

\* GError codes of a failed request: G_IO_ERROR_FAILED and
\* G_RESOLVER_ERROR_NOT_FOUND are 0, G_RESOLVER_ERROR_TEMPORARY_FAILURE is 1,
\* G_IO_ERROR_TIMED_OUT is 24, G_IO_ERROR_CONNECTION_REFUSED is 39.
TransportErrorCodes == {0, 1, 24, 39}

\* HTTP statuses other than 200 OK that a device answers with.
FailureStatuses == {SOUP_STATUS_UNAUTHORIZED, 403, 404}

TransportError(code) == [error |-> TRUE, code |-> code, status |-> 0, body |-> NullBody]
HttpResponse(status, body) == [error |-> FALSE, code |-> 0, status |-> status, body |-> body]

\* Every outcome of one request whose 200 answers carry a body of bodies.
Outcomes(bodies) ==
    {TransportError(c) : c \in TransportErrorCodes}
      \cup {HttpResponse(s, MalformedBody) : s \in FailureStatuses}
      \cup {HttpResponse(SOUP_STATUS_OK, b) : b \in bodies}

\* Lines 99-107: the GError code if there is one, else 0 for 200, else the
\* status; *response is what soup_session_send_and_read returned.
sendRequest(outcome) ==
    [ret |-> IF outcome.error THEN outcome.code
             ELSE IF outcome.status = SOUP_STATUS_OK THEN 0 ELSE outcome.status,
     response |-> outcome.body]

Request(method, url) == [method |-> method, url |-> url]

\* g_bytes_get_data(NULL, NULL) is a GLib precondition failure: a checked
\* build returns NULL (and xmlReadDoc(NULL) gives no document), a build with
\* G_DISABLE_CHECKS dereferences NULL.
ParseBehaviours(response) ==
    IF response.kind = "null" THEN {"nodoc", "crash"} ELSE {"parse"}

\* What the steps after a successful sendRequest may do, per request outcome.
Behaviours(outcome) ==
    IF sendRequest(outcome).ret = 0
    THEN ParseBehaviours(sendRequest(outcome).response)
    ELSE {"parse"}

\* xmlReadDoc(g_bytes_get_data(response)): TRUE when a document comes back.
HasDoc(response) == response.kind \in {"noroot", "xml"}
\* xmlDocGetRootElement(doc) != NULL
HasRoot(response) == response.kind = "xml"

(***************************************************************************)
(* RokuDevice (src/rokuecp.h:24-40) and getRokuDevice                      *)
(* (src/rokuecp.c:187-254)                                                 *)
(***************************************************************************)
T_true == <<"t", "r", "u", "e">>
T_false == <<"f", "a", "l", "s", "e">>
T_limited == <<"l", "i", "m", "i", "t", "e", "d">>
T_enabled == <<"e", "n", "a", "b", "l", "e", "d">>
T_PowerOn == <<"P", "o", "w", "e", "r", "O", "n">>
T_none == <<"n", "o", "n", "e">>
T_old == <<"o", "l", "d">>
T_truex == <<"t", "r", "u", "e", "x">>

\* sizeof of the text fields of RokuDevice
SizeName == 121
SizeLocation == 61
SizeUrl == 30
SizeModel == 31
SizeSerial == 14
SizeResolution == 8
SizeMac == 18
SizeSoftwareVersion == 10

\* A local array before it is written: junk, or what an earlier frame left.
StackBuf(stack, stale, len) ==
    IF stack = "junk" THEN JunkBuf(len) ELSE BufOf(Take(stale, len - 1), len)

StackStates == {"junk", "stale"}

\* Lines 226-241
DeviceInfoMap ==
    << MapEntry("user-device-name", "name", SizeName),
       MapEntry("user-device-location", "location", SizeLocation),
       MapEntry("friendly-model-name", "model", SizeModel),
       MapEntry("serial-number", "serial", SizeSerial),
       MapEntry("ui-resolution", "resolution", SizeResolution),
       MapEntry("wifi-mac", "macAddress", SizeMac),
       MapEntry("software-version", "softwareVersion", SizeSoftwareVersion),
       MapEntry("power-mode", "tmpPowerMode", 8),
       MapEntry("is-tv", "tmpIsTV", 5),
       MapEntry("ecp-setting-mode", "tmpEcpMode", 8),
       MapEntry("developer-enabled", "tmpDeveloperMode", 5),
       MapEntry("search-enabled", "tmpSearchEnabled", 5),
       MapEntry("supports-private-listening", "tmpHasPrivateListening", 5),
       MapEntry("headphones-connected", "tmpHeadphonesConnected", 5) >>

\* The destinations of DeviceInfoMap as they are when fillFromXML is called.
DeviceInfoMem(dev, stack) ==
    [b \in {DeviceInfoMap[i].destString : i \in 1..Len(DeviceInfoMap)} |->
        CASE b = "name" -> BufOf(dev.name, SizeName)
          [] b = "location" -> BufOf(dev.location, SizeLocation)
          [] b = "model" -> BufOf(dev.model, SizeModel)
          [] b = "serial" -> BufOf(dev.serial, SizeSerial)
          [] b = "resolution" -> BufOf(dev.resolution, SizeResolution)
          [] b = "macAddress" -> BufOf(dev.macAddress, SizeMac)
          [] b = "softwareVersion" -> BufOf(dev.softwareVersion, SizeSoftwareVersion)
          [] b = "tmpPowerMode" -> StackBuf(stack, T_PowerOn, 8)
          [] b = "tmpEcpMode" -> StackBuf(stack, T_limited, 8)
          [] OTHER -> StackBuf(stack, T_true, 5)]

\* Lines 243-249: the flags, each a strcmp(..) == 0 against a sentinel.
deviceFlags(m) ==
    [isOn |-> CStr(m["tmpPowerMode"]) = T_PowerOn,
     isTV |-> CStr(m["tmpIsTV"]) = T_true,
     isLimited |-> CStr(m["tmpIsTV"]) = T_limited,
     developerMode |-> CStr(m["tmpDeveloperMode"]) = T_true,
     hasSearchSupport |-> CStr(m["tmpSearchEnabled"]) = T_true,
     hasHeadphoneSupport |-> CStr(m["tmpHasPrivateListening"]) = T_true,
     headphonesConnected |-> CStr(m["tmpHeadphonesConnected"]) = T_true]

\* The result of a call: the value returned, the requests sent in order,
\* whether xmlReadDoc was reached, whether the process died, and the
\* records written.
Result(ret, sent, parsed, crashed, out) ==
    [ret |-> ret, sent |-> sent, parsed |-> parsed, crashed |-> crashed, out |-> out]

\* Lines 199, 210 and 215: the error codes getRokuDevice returns.
getRokuDeviceCodes == [unauthorized |-> -3, noDoc |-> -2, noRoot |-> -3]

\* Line 192: char queryURL[(sizeof(device->url) + sizeof("/query/device-info"))
\* / sizeof(char) - 1]
SizeDeviceInfoPath == 19
SizeQueryUrl == SizeUrl + SizeDeviceInfoPath - 1

\* Lines 193-194: the cells of queryURL that strcpy and strcat write, the
\* terminator included; neither looks at the size of the buffer.
queryURLCells(url) == Len(url) + SizeDeviceInfoPath

\* Writing past the end of queryURL is undefined: the bytes after the local
\* array are overwritten and the call goes on, or the process dies in the
\* copy (a fortified strcpy/strcat aborts before the request is sent).
QueryUrlBehaviours(url) ==
    IF queryURLCells(url) > SizeQueryUrl THEN {"overrun", "overrun-crash"} ELSE {"fits"}

getRokuDevice(url, dev, outcome, behaviour, overrun, stack, fallback) ==
    LET dev1 == [dev EXCEPT !.url = CStr(strlcpy(BufOf(dev.url, SizeUrl), url, SizeUrl, fallback))]
        req == Request("GET", url \o <<"/query/device-info">>)
        r == sendRequest(outcome)
        codes == getRokuDeviceCodes
    IN  IF overrun = "overrun-crash"
          THEN Result(0, <<>>, FALSE, TRUE, dev1)
        ELSE IF r.ret = SOUP_STATUS_UNAUTHORIZED
          THEN Result(codes.unauthorized, <<req>>, FALSE, FALSE, dev1)
        ELSE IF r.ret # 0
          THEN Result(r.ret, <<req>>, FALSE, FALSE, dev1)
        ELSE IF behaviour = "crash"
          THEN Result(0, <<req>>, TRUE, TRUE, dev1)
        ELSE IF ~HasDoc(r.response)
          THEN Result(codes.noDoc, <<req>>, TRUE, FALSE, dev1)
        ELSE IF ~HasRoot(r.response)
          THEN Result(codes.noRoot, <<req>>, TRUE, FALSE, dev1)
        ELSE LET m == fillFromXML(r.response.root, FALSE, DeviceInfoMap,
                                  DeviceInfoMem(dev1, stack), fallback)
                 f == deviceFlags(m)
             IN  Result(0, <<req>>, TRUE, FALSE,
                        [url |-> dev1.url,
                         name |-> CStr(m["name"]),
                         location |-> CStr(m["location"]),
                         model |-> CStr(m["model"]),
                         serial |-> CStr(m["serial"]),
                         resolution |-> CStr(m["resolution"]),
                         macAddress |-> CStr(m["macAddress"]),
                         softwareVersion |-> CStr(m["softwareVersion"]),
                         isTV |-> f.isTV, isOn |-> f.isOn, isLimited |-> f.isLimited,
                         developerMode |-> f.developerMode,
                         hasSearchSupport |-> f.hasSearchSupport,
                         hasHeadphoneSupport |-> f.hasHeadphoneSupport,
                         headphonesConnected |-> f.headphonesConnected])

(***************************************************************************)
(* rokuSendKey (src/rokuecp.c:256-281)                                     *)
(* A key is text: a named key is one token, a literal key is "Lit_"        *)
(* followed by the escaped character.                                      *)
(***************************************************************************)
\* Mutant: the loop stops one short (i < 11), InputAV1 is never compared.
tvOnlyKeysShort ==
    << <<"VolumeUp">>, <<"VolumeDown">>, <<"VolumeMute">>, <<"PowerOff">>,
       <<"ChannelUp">>, <<"ChannelDown">>, <<"InputTuner">>, <<"InputHDMI1">>,
       <<"InputHDMI2">>, <<"InputHDMI3">>, <<"InputHDMI4">> >>

\* Lines 260-261
tvOnlyKeys ==
    << <<"VolumeUp">>, <<"VolumeDown">>, <<"VolumeMute">>, <<"PowerOff">>,
       <<"ChannelUp">>, <<"ChannelDown">>, <<"InputTuner">>, <<"InputHDMI1">>,
       <<"InputHDMI2">>, <<"InputHDMI3">>, <<"InputHDMI4">>, <<"InputAV1">> >>

\* Lines 258-266: TRUE when the loop returns -1.
isTvOnlyKey(key) == \E i \in 1..Len(tvOnlyKeys) : key = tvOnlyKeys[i]

\* Mutant: a keypress whose request fails is sent a second time.
rokuSendKeyRetry(dev, key, outcome) ==
    IF ~dev.isTV /\ isTvOnlyKey(key)
      THEN Result(-1, <<>>, FALSE, FALSE, <<>>)
    ELSE IF dev.isLimited
      THEN Result(-2, <<>>, FALSE, FALSE, <<>>)
    ELSE LET req == Request("POST", dev.url \o <<"/keypress/">> \o key)
             r == sendRequest(outcome)
         IN  IF r.ret = SOUP_STATUS_UNAUTHORIZED
             THEN Result(-3, <<req>>, FALSE, FALSE, <<>>)
             ELSE IF r.ret # 0
             THEN Result(r.ret, <<req, req>>, FALSE, FALSE, <<>>)
             ELSE Result(r.ret, <<req>>, FALSE, FALSE, <<>>)

rokuSendKey(dev, key, outcome) ==
    IF ~dev.isTV /\ isTvOnlyKey(key)
      THEN Result(-1, <<>>, FALSE, FALSE, <<>>)
    ELSE IF dev.isLimited
      THEN Result(-2, <<>>, FALSE, FALSE, <<>>)
    ELSE LET req == Request("POST", dev.url \o <<"/keypress/">> \o key)
             r == sendRequest(outcome)
         IN  IF r.ret = SOUP_STATUS_UNAUTHORIZED
             THEN Result(-3, <<req>>, FALSE, FALSE, <<>>)
             ELSE Result(r.ret, <<req>>, FALSE, FALSE, <<>>)

(***************************************************************************)
(* strtoul / strtol as the channel decoders use them                       *)
(***************************************************************************)
Digits == <<"0", "1", "2", "3", "4", "5", "6", "7", "8", "9">>

IsDigit(c) == \E d \in 1..10 : Digits[d] = c

DigitVal(c) == (CHOOSE d \in 1..10 : Digits[d] = c) - 1

RECURSIVE DigitsValue(_, _, _)
DigitsValue(s, i, acc) ==
    IF i > Len(s) \/ ~IsDigit(s[i]) THEN acc
    ELSE DigitsValue(s, i + 1, acc * 10 + DigitVal(s[i]))

RECURSIVE SkipSpace(_, _)
SkipSpace(s, i) == IF i <= Len(s) /\ s[i] = " " THEN SkipSpace(s, i + 1) ELSE i

\* The number strtol reads at the start of s: blanks, an optional sign,
\* decimal digits; 0 when there are no digits.
strtol(s) ==
    LET i == SkipSpace(s, 1)
        signed == i <= Len(s) /\ s[i] \in {"+", "-"}
        j == IF signed THEN i + 1 ELSE i
        mag == DigitsValue(s, j, 0)
    IN  IF signed /\ s[i] = "-" THEN 0 - mag ELSE mag

\* (uint8_t) strtoul(s): strtoul negates modulo 2^64, of which 2^8 is a divisor.
Uint8(v) == v % 256
\* (int8_t) strtol(s)
Int8(v) == ((v + 128) % 256) - 128

\* strtoul(s) * 1000UL.  The magnitudes that fit tmpFrequency stay below
\* 2^31; a negative result stands for 2^64 minus its magnitude.
FrequencyHz(s) == strtol(s) * 1000

(***************************************************************************)
(* RokuTVChannel (src/rokuecp.h:43-50) and the channel decoding shared by  *)
(* getRokuTVChannels (lines 326-346) and getActiveRokuTVChannel (400-422)  *)
(***************************************************************************)
SizeChanId == 8
SizeChanName == 8
SizeChanType == 14
SizeChanNetwork == 25

\* Lines 328-335 and 403-410 (without active-input)
ChannelMap ==
    << MapEntry("channel-id", "id", SizeChanId),
       MapEntry("broadcast-network-label", "network", SizeChanNetwork),
       MapEntry("name", "name", SizeChanName),
       MapEntry("type", "type", SizeChanType),
       MapEntry("physical-channel", "tmpPhysicalChannel", 3),
       MapEntry("physical-frequency", "tmpFrequency", 7) >>

ChannelMem(ch, stack) ==
    [b \in {"id", "network", "name", "type", "tmpPhysicalChannel", "tmpFrequency", "tmpActive"} |->
        CASE b = "id" -> BufOf(ch.id, SizeChanId)
          [] b = "network" -> BufOf(ch.network, SizeChanNetwork)
          [] b = "name" -> BufOf(ch.name, SizeChanName)
          [] b = "type" -> BufOf(ch.type, SizeChanType)
          [] b = "tmpPhysicalChannel" -> StackBuf(stack, <<"4", "2">>, 3)
          [] b = "tmpFrequency" -> StackBuf(stack, <<"6", "0", "9">>, 7)
          [] OTHER -> StackBuf(stack, T_true, 6)]

\* Lines 337-346 and 413-422: the RokuTVChannel read from the filled buffers.
channelFromMem(m) ==
    [id |-> CStr(m["id"]), name |-> CStr(m["name"]), type |-> CStr(m["type"]),
     network |-> CStr(m["network"]),
     physicalChannel |-> IF CStr(m["tmpPhysicalChannel"]) # <<>>
                         THEN Uint8(strtol(CStr(m["tmpPhysicalChannel"]))) ELSE 0,
     frequency |-> IF CStr(m["tmpFrequency"]) # <<>>
                   THEN FrequencyHz(CStr(m["tmpFrequency"])) ELSE 0]

\* An array element the caller never wrote.
JunkChannel == [id |-> <<JUNK>>, name |-> <<JUNK>>, type |-> <<JUNK>>,
                network |-> <<JUNK>>, physicalChannel |-> 0, frequency |-> 0]

(***************************************************************************)
(* getRokuTVChannels (src/rokuecp.c:283-354)                               *)
(***************************************************************************)
\* Lines 320-349: the channels decoded from child k on, list being the
\* entries filled so far.
RECURSIVE tvChannelLoop(_, _, _, _, _, _)
tvChannelLoop(kids, k, list, maxChannels, stack, fallback) ==
    IF k > Len(kids) \/ ~(Len(list) < maxChannels) THEN list
    ELSE IF kids[k].type # "element"
      THEN tvChannelLoop(kids, k + 1, list, maxChannels, stack, fallback)
    ELSE LET m == fillFromXML(kids[k], FALSE, ChannelMap,
                              ChannelMem(JunkChannel, stack), fallback)
         IN  tvChannelLoop(kids, k + 1, Append(list, channelFromMem(m)),
                           maxChannels, stack, fallback)

getRokuTVChannels(dev, maxChannels, outcome, behaviour, stack, fallback) ==
    IF ~dev.isTV THEN Result(-4, <<>>, FALSE, FALSE, <<>>)
    ELSE IF dev.isLimited THEN Result(-5, <<>>, FALSE, FALSE, <<>>)
    ELSE LET req == Request("GET", dev.url \o <<"/query/tv-channels">>)
             r == sendRequest(outcome)
         IN  IF r.ret = SOUP_STATUS_UNAUTHORIZED
               THEN Result(-6, <<req>>, FALSE, FALSE, <<>>)
             ELSE IF r.ret # 0
               THEN Result(-1, <<req>>, FALSE, FALSE, <<>>)
             ELSE IF behaviour = "crash"
               THEN Result(0, <<req>>, TRUE, TRUE, <<>>)
             ELSE IF ~HasDoc(r.response)
               THEN Result(-2, <<req>>, TRUE, FALSE, <<>>)
             ELSE IF ~HasRoot(r.response)
               THEN Result(-3, <<req>>, TRUE, FALSE, <<>>)
             ELSE LET list == tvChannelLoop(r.response.root.children, 1, <<>>,
                                            maxChannels, stack, fallback)
                  IN  Result(Len(list), <<req>>, TRUE, FALSE, list)

(***************************************************************************)
(* RokuExtTVChannel (src/rokuecp.h:64-77) and getActiveRokuTVChannel       *)
(* (src/rokuecp.c:356-468)                                                 *)
(***************************************************************************)
SizeTitle == 112
SizeDescription == 256
SizeRating == 15
SizeChanResolution == 8

\* Lines 403-411
ActiveChannelMap == Append(ChannelMap, MapEntry("active-input", "tmpActive", 6))

\* Lines 431-440
IfActiveMap ==
    << MapEntry("program-title", "title", SizeTitle),
       MapEntry("program-description", "description", SizeDescription),
       MapEntry("program-ratings", "rating", SizeRating),
       MapEntry("program-has-cc", "tmpHasCC", 5),
       MapEntry("signal-mode", "resolution", SizeChanResolution),
       MapEntry("signal-state", "tmpSignalState", 5),
       MapEntry("signal-quality", "tmpSignalQuality", 4),
       MapEntry("signal-strength", "tmpSignalStrength", 5) >>

IfActiveMem(ch, stack) ==
    [b \in {IfActiveMap[i].destString : i \in 1..Len(IfActiveMap)} |->
        CASE b = "title" -> BufOf(ch.program.title, SizeTitle)
          [] b = "description" -> BufOf(ch.program.description, SizeDescription)
          [] b = "rating" -> BufOf(ch.program.rating, SizeRating)
          [] b = "resolution" -> BufOf(ch.resolution, SizeChanResolution)
          [] b = "tmpSignalQuality" -> StackBuf(stack, <<"9", "9">>, 4)
          [] b = "tmpSignalStrength" -> StackBuf(stack, <<"-", "7">>, 5)
          [] OTHER -> StackBuf(stack, T_true, 5)]

\* Lines 426-453: the fields read when the channel is active.
activeFields(ch, channelElement, base, stack, fallback) ==
    LET m == fillFromXML(channelElement, FALSE, IfActiveMap, IfActiveMem(ch, stack), fallback)
    IN  [channel |-> base, isActive |-> TRUE,
         program |-> [title |-> CStr(m["title"]),
                      description |-> CStr(m["description"]),
                      rating |-> CStr(m["rating"]),
                      hasCC |-> CStr(m["tmpHasCC"]) = T_true],
         signalReceived |-> CStr(m["tmpSignalState"]) # T_none,
         resolution |-> CStr(m["resolution"]),
         signalQuality |-> IF CStr(m["tmpSignalQuality"]) # <<>>
                           THEN Uint8(strtol(CStr(m["tmpSignalQuality"]))) ELSE 0,
         signalStrength |-> IF CStr(m["tmpSignalStrength"]) # <<>>
                            THEN Int8(strtol(CStr(m["tmpSignalStrength"]))) ELSE 0]

\* Mutant: the else branch left out, the record keeps what it held.
inactiveFieldsKept(ch, base) == [ch EXCEPT !.channel = base, !.isActive = FALSE]

\* Lines 454-463: the fields reset when the channel is not active.
inactiveFields(ch, base) ==
    [channel |-> base, isActive |-> FALSE,
     program |-> [title |-> <<>>, description |-> <<>>, rating |-> <<>>, hasCC |-> FALSE],
     signalReceived |-> FALSE, resolution |-> <<>>,
     signalQuality |-> 0, signalStrength |-> 0]

\* Lines 390-397: the node taken for the channel element; NULL when the
\* first child is not an element and has no sibling.
channelElementOf(kids) ==
    IF kids[1].type # "element"
    THEN (IF Len(kids) >= 2 THEN kids[2] ELSE NoRoot)
    ELSE kids[1]

channelElementIsNull(kids) == kids[1].type # "element" /\ Len(kids) < 2

getActiveRokuTVChannel(dev, ch, outcome, behaviour, stack, fallback) ==
    IF ~dev.isTV THEN Result(-3, <<>>, FALSE, FALSE, ch)
    ELSE IF dev.isLimited THEN Result(-4, <<>>, FALSE, FALSE, ch)
    ELSE LET req == Request("GET", dev.url \o <<"/query/tv-active-channel">>)
             r == sendRequest(outcome)
         IN  IF r.ret = SOUP_STATUS_UNAUTHORIZED
               THEN Result(-5, <<req>>, FALSE, FALSE, ch)
             ELSE IF r.ret # 0
               THEN Result(r.ret, <<req>>, FALSE, FALSE, ch)
             ELSE IF behaviour = "crash"
               THEN Result(0, <<req>>, TRUE, TRUE, ch)
             ELSE IF ~HasDoc(r.response)
               THEN Result(-1, <<req>>, TRUE, FALSE, ch)
             ELSE IF ~HasRoot(r.response)
               THEN Result(-2, <<req>>, TRUE, FALSE, ch)
             ELSE IF r.response.root.children = <<>>
               THEN Result(-2, <<req>>, TRUE, FALSE, ch)
             ELSE IF channelElementIsNull(r.response.root.children)
               \* fillFromXML reads parentElement->children through NULL
               THEN Result(0, <<req>>, TRUE, TRUE, ch)
             ELSE LET el == channelElementOf(r.response.root.children)
                      m == fillFromXML(el, FALSE, ActiveChannelMap,
                                       ChannelMem(ch.channel, stack), fallback)
                      base == channelFromMem(m)
                      active == CStr(m["tmpActive"]) = T_true
                  IN  Result(0, <<req>>, TRUE, FALSE,
                             IF active THEN activeFields(ch, el, base, stack, fallback)
                             ELSE inactiveFields(ch, base))

(***************************************************************************)
(* URI escaping (g_string_append_uri_escaped / g_uri_escape_string with no *)
(* reserved characters allowed): unreserved characters stay, every other   *)
(* byte becomes %XX; with allow_utf8 a non-ASCII character stays.          *)
(* A non-ASCII character is written "U+XXXX".                              *)
(***************************************************************************)
UnreservedChars ==
    {"a", "b", "c", "d", "e", "f", "g", "h", "i", "j", "k", "l", "m",
     "n", "o", "p", "q", "r", "s", "t", "u", "v", "w", "x", "y", "z",
     "A", "B", "C", "D", "E", "F", "G", "H", "I", "J", "K", "L", "M",
     "N", "O", "P", "Q", "R", "S", "T", "U", "V", "W", "X", "Y", "Z",
     "0", "1", "2", "3", "4", "5", "6", "7", "8", "9", "-", ".", "_", "~"}

\* The UTF-8 bytes of the characters the model uses, in hexadecimal.
PercentCode(c) ==
    CASE c = " " -> <<"%", "2", "0">>
      [] c = "!" -> <<"%", "2", "1">>
      [] c = "%" -> <<"%", "2", "5">>
      [] c = "&" -> <<"%", "2", "6">>
      [] c = "/" -> <<"%", "2", "F">>
      [] c = "=" -> <<"%", "3", "D">>
      [] c = "?" -> <<"%", "3", "F">>
      [] c = "U+00E9" -> <<"%", "C", "3", "%", "A", "9">>

IsAscii(c) == c \notin {"U+00E9", "U+2603"}

EscapeChar(c, allowUtf8) ==
    IF c \in UnreservedChars THEN <<c>>
    ELSE IF allowUtf8 /\ ~IsAscii(c) THEN <<c>>
    ELSE PercentCode(c)

RECURSIVE UriEscape(_, _)
UriEscape(s, allowUtf8) ==
    IF s = <<>> THEN <<>>
    ELSE EscapeChar(Head(s), allowUtf8) \o UriEscape(Tail(s), allowUtf8)

\* printf("%u"): the decimal digits of n
RECURSIVE DecimalText(_)
DecimalText(n) ==
    IF n < 10 THEN <<Digits[n + 1]>>
    ELSE DecimalText(n \div 10) \o <<Digits[(n % 10) + 1]>>

(***************************************************************************)
(* launchRokuApp (src/rokuecp.c:608-674) and launchRokuTVChannel (470-485) *)
(***************************************************************************)
MediaTypes == {"FILM", "SERIES", "SEASON", "EPISODE", "SHORT_FORM_VIDEO", "TV_SPECIAL", "NO_TYPE"}

\* Lines 629-650
MediaTypeParam(mediaType) ==
    CASE mediaType = "FILM" -> <<"MediaType=movie">>
      [] mediaType = "SERIES" -> <<"MediaType=series">>
      [] mediaType = "SEASON" -> <<"MediaType=season">>
      [] mediaType = "EPISODE" -> <<"MediaType=episode">>
      [] mediaType = "SHORT_FORM_VIDEO" -> <<"MediaType=shortFormVideo">>
      [] mediaType = "TV_SPECIAL" -> <<"MediaType=tvSpecial">>
      [] OTHER -> <<>>

\* Lines 659-666: name=value pairs from i on, '&' between them.
RECURSIVE otherParams(_, _, _, _)
otherParams(names, values, i, n) ==
    IF i > n THEN <<>>
    ELSE UriEscape(names[i], TRUE) \o <<"=">> \o UriEscape(values[i], TRUE)
           \o (IF i # n THEN <<"&">> ELSE <<>>)
           \o otherParams(names, values, i + 1, n)

LaunchParams(appID, contentID, mediaType, names, values) ==
    [appID |-> appID, contentID |-> contentID, mediaType |-> mediaType,
     otherParamNames |-> names, otherParamValues |-> values,
     numOtherParams |-> Len(names)]

\* Mutant: the separator before the extra parameters is always '&'.
launchUrlAmpersandOnly(dev, params) ==
    LET hasContentID == params.contentID # <<>>
        hasMediaType == params.mediaType # "NO_TYPE"
        hasOtherParams == params.numOtherParams # 0
    IN  dev.url \o <<"/launch/">> \o params.appID
          \o (IF hasContentID THEN <<"?contentId=">> \o UriEscape(params.contentID, TRUE) ELSE <<>>)
          \o (IF hasMediaType THEN (IF hasContentID THEN <<"&">> ELSE <<"?">>) ELSE <<>>)
          \o MediaTypeParam(params.mediaType)
          \o (IF hasOtherParams THEN <<"&">> ELSE <<>>)
          \o otherParams(params.otherParamNames, params.otherParamValues, 1, params.numOtherParams)

\* Lines 609-666: the URL requested.
launchUrl(dev, params) ==
    LET hasContentID == params.contentID # <<>>
        hasMediaType == params.mediaType # "NO_TYPE"
        hasOtherParams == params.numOtherParams # 0
    IN  dev.url \o <<"/launch/">> \o params.appID
          \o (IF hasContentID THEN <<"?contentId=">> \o UriEscape(params.contentID, TRUE) ELSE <<>>)
          \o (IF hasMediaType THEN (IF hasContentID THEN <<"&">> ELSE <<"?">>) ELSE <<>>)
          \o MediaTypeParam(params.mediaType)
          \o (IF hasOtherParams
              THEN (IF hasContentID \/ hasMediaType THEN <<"&">> ELSE <<"?">>) ELSE <<>>)
          \o otherParams(params.otherParamNames, params.otherParamValues, 1, params.numOtherParams)

launchRokuApp(dev, params, outcome) ==
    LET req == Request("POST", launchUrl(dev, params))
        r == sendRequest(outcome)
    IN  IF r.ret = SOUP_STATUS_UNAUTHORIZED
        THEN Result(-1, <<req>>, FALSE, FALSE, <<>>)
        ELSE Result(r.ret, <<req>>, FALSE, FALSE, <<>>)

\* Mutant: the not-a-TV check left out.
launchRokuTVChannelUnchecked(dev, tvChannel, outcome) ==
    launchRokuApp(dev, LaunchParams(<<"tvinput.dtv">>, <<>>, "NO_TYPE",
                                    << <<"c", "h", "a", "n">>, <<"l", "c", "n">>, <<"c", "h">> >>,
                                    <<tvChannel.id, tvChannel.id, tvChannel.id>>), outcome)

\* Mutant: the channel id passed under the first alias only.
launchRokuTVChannelOneAlias(dev, tvChannel, outcome) ==
    IF ~dev.isTV THEN Result(-2, <<>>, FALSE, FALSE, <<>>)
    ELSE launchRokuApp(dev, LaunchParams(<<"tvinput.dtv">>, <<>>, "NO_TYPE",
                                         << <<"c", "h", "a", "n">> >>,
                                         <<tvChannel.id>>), outcome)

launchRokuTVChannel(dev, tvChannel, outcome) ==
    IF ~dev.isTV THEN Result(-2, <<>>, FALSE, FALSE, <<>>)
    ELSE launchRokuApp(dev, LaunchParams(<<"tvinput.dtv">>, <<>>, "NO_TYPE",
                                         << <<"c", "h", "a", "n">>, <<"l", "c", "n">>, <<"c", "h">> >>,
                                         <<tvChannel.id, tvChannel.id, tvChannel.id>>), outcome)

(***************************************************************************)
(* RokuApp (src/rokuecp.h:80-85), getRokuApps (src/rokuecp.c:487-548) and  *)
(* getActiveRokuApp (550-606)                                              *)
(***************************************************************************)
SizeAppId == 14
SizeAppName == 31
SizeAppType == 5
SizeAppVersion == 22

\* Lines 535-539 and 596-600
AppMap ==
    << MapEntry("id", "id", SizeAppId),
       MapEntry("type", "type", SizeAppType),
       MapEntry("version", "version", SizeAppVersion) >>

AppMem(app) ==
    [b \in {"id", "type", "version"} |->
        CASE b = "id" -> BufOf(app.id, SizeAppId)
          [] b = "type" -> BufOf(app.type, SizeAppType)
          [] OTHER -> BufOf(app.version, SizeAppVersion)]

JunkApp == [id |-> <<JUNK>>, name |-> <<JUNK>>, type |-> <<JUNK>>, version |-> <<JUNK>>]

\* Lines 527-540 and 588-601: one RokuApp from an element.
appFromXML(node, app, fallback) ==
    LET m == fillFromXML(node, TRUE, AppMap, AppMem(app), fallback)
    IN  [id |-> CStr(m["id"]), type |-> CStr(m["type"]), version |-> CStr(m["version"]),
         name |-> IF node.content # NULL
                  THEN CStr(strlcpy(BufOf(app.name, SizeAppName), node.content,
                                    SizeAppName, fallback))
                  ELSE <<>>]

\* Lines 521-543
RECURSIVE appLoop(_, _, _, _, _)
appLoop(kids, k, list, maxApps, fallback) ==
    IF k > Len(kids) \/ ~(Len(list) < maxApps) THEN list
    ELSE IF kids[k].type # "element" THEN appLoop(kids, k + 1, list, maxApps, fallback)
    ELSE appLoop(kids, k + 1, Append(list, appFromXML(kids[k], JunkApp, fallback)),
                 maxApps, fallback)

getRokuApps(dev, maxApps, outcome, behaviour, fallback) ==
    IF dev.isLimited THEN Result(-4, <<>>, FALSE, FALSE, <<>>)
    ELSE LET req == Request("GET", dev.url \o <<"/query/apps">>)
             r == sendRequest(outcome)
         IN  IF r.ret = SOUP_STATUS_UNAUTHORIZED
               THEN Result(-5, <<req>>, FALSE, FALSE, <<>>)
             ELSE IF r.ret # 0
               THEN Result(-1, <<req>>, FALSE, FALSE, <<>>)
             ELSE IF behaviour = "crash"
               THEN Result(0, <<req>>, TRUE, TRUE, <<>>)
             ELSE IF ~HasDoc(r.response)
               THEN Result(-2, <<req>>, TRUE, FALSE, <<>>)
             ELSE IF ~HasRoot(r.response)
               THEN Result(-3, <<req>>, TRUE, FALSE, <<>>)
             ELSE LET list == appLoop(r.response.root.children, 1, <<>>, maxApps, fallback)
                  IN  Result(Len(list), <<req>>, TRUE, FALSE, list)

\* Lines 578-585: the node taken for the app element (NULL reads as NoRoot).
appElementOf(kids) ==
    IF kids[1].type # "element"
    THEN (IF Len(kids) >= 2 THEN kids[2] ELSE NoRoot)
    ELSE kids[1]

\* xmlNodeGetContent and xmlNodeGetAttrValue both accept a NULL node and
\* report nothing found, so a NULL appElement reads as an empty element.
getActiveRokuApp(dev, app, outcome, behaviour, fallback) ==
    LET req == Request("GET", dev.url \o <<"/query/active-app">>)
        r == sendRequest(outcome)
    IN  IF r.ret = SOUP_STATUS_UNAUTHORIZED
          THEN Result(-3, <<req>>, FALSE, FALSE, app)
        ELSE IF r.ret # 0
          THEN Result(r.ret, <<req>>, FALSE, FALSE, app)
        ELSE IF behaviour = "crash"
          THEN Result(0, <<req>>, TRUE, TRUE, app)
        ELSE IF ~HasDoc(r.response)
          THEN Result(-1, <<req>>, TRUE, FALSE, app)
        ELSE IF ~HasRoot(r.response)
          THEN Result(-2, <<req>>, TRUE, FALSE, app)
        ELSE IF r.response.root.children = <<>>
          THEN Result(-2, <<req>>, TRUE, FALSE, app)
        ELSE Result(0, <<req>>, TRUE, FALSE,
                    appFromXML(appElementOf(r.response.root.children), app, fallback))

(***************************************************************************)
(* getRokuAppIcon (src/rokuecp.c:676-697)                                  *)
(* The body of an icon answer is a byte sequence.  When the transport      *)
(* failed there is no GBytes: g_bytes_unref_to_data(NULL, &size) returns   *)
(* NULL and leaves size as it was (never written), or dereferences NULL.   *)
(***************************************************************************)
BytesBody(bytes) == [kind |-> "bytes", root |-> NoRoot, bytes |-> bytes]

IconBehaviours(outcome) ==
    IF outcome.error THEN {"size-junk-0", "size-junk-7", "crash"} ELSE {"parse"}

getRokuAppIcon(dev, app, outcome, behaviour) ==
    IF dev.isLimited THEN Result(-1, <<>>, FALSE, FALSE, <<>>)
    ELSE LET req == Request("GET", dev.url \o <<"/query/icon/">> \o app.id)
             r == sendRequest(outcome)
             icon == IF r.response.kind = "bytes"
                     THEN [data |-> r.response.bytes, size |-> Len(r.response.bytes)]
                     ELSE [data |-> NULL,
                           size |-> IF behaviour = "size-junk-7" THEN 7 ELSE 0]
         IN  IF behaviour = "crash"
               THEN Result(0, <<req>>, FALSE, TRUE, <<>>)
             ELSE IF r.ret = SOUP_STATUS_UNAUTHORIZED
               THEN Result(-2, <<req>>, FALSE, FALSE, icon)
             ELSE Result(r.ret, <<req>>, FALSE, FALSE, icon)

(***************************************************************************)
(* sendCustomRokuInput (src/rokuecp.c:699-724)                             *)
(***************************************************************************)
\* Lines 707-715
RECURSIVE inputParams(_, _, _, _)
inputParams(names, values, i, n) ==
    IF i > n THEN <<>>
    ELSE UriEscape(names[i], TRUE) \o <<"=">> \o UriEscape(values[i], TRUE)
           \o (IF i < n THEN <<"&">> ELSE <<>>)
           \o inputParams(names, values, i + 1, n)

sendCustomRokuInput(dev, names, values, outcome) ==
    IF dev.isLimited THEN Result(-1, <<>>, FALSE, FALSE, <<>>)
    ELSE LET req == Request("POST", dev.url \o <<"/input?">>
                                      \o inputParams(names, values, 1, Len(names)))
             r == sendRequest(outcome)
         IN  IF r.ret = SOUP_STATUS_UNAUTHORIZED
             THEN Result(-2, <<req>>, FALSE, FALSE, <<>>)
             ELSE Result(r.ret, <<req>>, FALSE, FALSE, <<>>)

(***************************************************************************)
(* RokuSearchParams (src/rokuecp.h:94-109) and rokuSearch                  *)
(* (src/rokuecp.c:726-796)                                                 *)
(***************************************************************************)
SearchTypes == {"MOVIE", "SHOW", "PERSON", "APP", "GAME", "NONE"}

\* Lines 740-758
SearchTypeParam(type) ==
    CASE type = "MOVIE" -> <<"&type=movie">>
      [] type = "SHOW" -> <<"&type=tv-show">>
      [] type = "PERSON" -> <<"&type=person">>
      [] type = "APP" -> <<"&type=channel">>
      [] type = "GAME" -> <<"&type=game">>
      [] OTHER -> <<>>

\* Lines 782-787: the provider ids after the first, from slot i on.
RECURSIVE moreProviders(_, _)
moreProviders(ids, i) ==
    IF i > 8 THEN <<>>
    ELSE (IF ids[i] # <<>> THEN <<",">> \o ids[i] ELSE <<>>) \o moreProviders(ids, i + 1)

\* Mutant: launch=true written before show-unavailable=true.
searchUrlLaunchFirst(dev, keyword, params) ==
    dev.url \o <<"/search/browse?keyword=">> \o UriEscape(keyword, TRUE)
      \o SearchTypeParam(params.type)
      \o (IF params.autoLaunch THEN <<"&launch=true">> ELSE <<>>)
      \o (IF params.includeUnavailable THEN <<"&show-unavailable=true">> ELSE <<>>)
      \o (IF params.autoSelect THEN <<"&match-any=true">> ELSE <<>>)
      \o (IF params.season # 0 THEN <<"&season=">> \o DecimalText(params.season) ELSE <<>>)
      \o (IF params.tmsID # <<>> THEN <<"&tmsid=">> \o params.tmsID ELSE <<>>)
      \o (IF params.providerIDs[1] # <<>>
          THEN <<"&provider-id=">> \o params.providerIDs[1] \o moreProviders(params.providerIDs, 2)
          ELSE <<>>)

\* Lines 731-788: the URL requested.
searchUrl(dev, keyword, params) ==
    dev.url \o <<"/search/browse?keyword=">> \o UriEscape(keyword, TRUE)
      \o SearchTypeParam(params.type)
      \o (IF params.includeUnavailable THEN <<"&show-unavailable=true">> ELSE <<>>)
      \o (IF params.autoLaunch THEN <<"&launch=true">> ELSE <<>>)
      \o (IF params.autoSelect THEN <<"&match-any=true">> ELSE <<>>)
      \o (IF params.season # 0 THEN <<"&season=">> \o DecimalText(params.season) ELSE <<>>)
      \o (IF params.tmsID # <<>> THEN <<"&tmsid=">> \o params.tmsID ELSE <<>>)
      \o (IF params.providerIDs[1] # <<>>
          THEN <<"&provider-id=">> \o params.providerIDs[1] \o moreProviders(params.providerIDs, 2)
          ELSE <<>>)

\* Mutant: the empty-keyword check left out.
rokuSearchAnyKeyword(dev, keyword, params, outcome) ==
    IF ~dev.hasSearchSupport \/ dev.isLimited
      THEN Result(-1, <<>>, FALSE, FALSE, <<>>)
    ELSE LET req == Request("POST", searchUrl(dev, keyword, params))
             r == sendRequest(outcome)
         IN  IF r.ret = SOUP_STATUS_UNAUTHORIZED
             THEN Result(-1, <<req>>, FALSE, FALSE, <<>>)
             ELSE Result(r.ret, <<req>>, FALSE, FALSE, <<>>)

rokuSearch(dev, keyword, params, outcome) ==
    IF ~dev.hasSearchSupport \/ dev.isLimited
      THEN Result(-1, <<>>, FALSE, FALSE, <<>>)
    ELSE IF keyword = <<>>
      THEN Result(-2, <<>>, FALSE, FALSE, <<>>)
    ELSE LET req == Request("POST", searchUrl(dev, keyword, params))
             r == sendRequest(outcome)
         IN  IF r.ret = SOUP_STATUS_UNAUTHORIZED
             THEN Result(-1, <<req>>, FALSE, FALSE, <<>>)
             ELSE Result(r.ret, <<req>>, FALSE, FALSE, <<>>)

(***************************************************************************)
(* rokuTypeString (src/rokuecp.c:798-831)                                  *)
(* string is a sequence of wide characters; wctomb fails (-1) on the       *)
(* characters the locale cannot encode.  outcomes[i] is what the transport *)
(* does with the keypress of character i, if one is sent.                  *)
(***************************************************************************)
\* wctomb(mbstr, c) == -1 in the locale of the model
Unencodable(c) == c = "U+2603"

\* Mutant: a character that cannot be encoded ends the loop.
RECURSIVE typeLoopStopAtUnencodable(_, _, _, _, _, _)
typeLoopStopAtUnencodable(dev, string, outcomes, i, errorCode, sent) ==
    IF i > Len(string) \/ Unencodable(string[i]) THEN Result(errorCode, sent, FALSE, FALSE, <<>>)
    ELSE LET key == <<"Lit_">> \o UriEscape(<<string[i]>>, FALSE)
             k == rokuSendKey(dev, key, outcomes[i])
         IN  IF k.ret = -3
             THEN Result(-2, sent \o k.sent, FALSE, FALSE, <<>>)
             ELSE typeLoopStopAtUnencodable(dev, string, outcomes, i + 1, k.ret, sent \o k.sent)

\* Mutant: the first failed keypress decides the result.
RECURSIVE typeLoopKeepFirstError(_, _, _, _, _, _)
typeLoopKeepFirstError(dev, string, outcomes, i, errorCode, sent) ==
    IF i > Len(string) THEN Result(errorCode, sent, FALSE, FALSE, <<>>)
    ELSE IF Unencodable(string[i])
      THEN typeLoopKeepFirstError(dev, string, outcomes, i + 1, errorCode, sent)
    ELSE LET key == <<"Lit_">> \o UriEscape(<<string[i]>>, FALSE)
             k == rokuSendKey(dev, key, outcomes[i])
         IN  IF k.ret = -3
             THEN Result(-2, sent \o k.sent, FALSE, FALSE, <<>>)
             ELSE typeLoopKeepFirstError(dev, string, outcomes, i + 1,
                                         IF errorCode # 0 THEN errorCode ELSE k.ret,
                                         sent \o k.sent)

\* Mutant: a keypress that reports ECP disabled does not end the loop.
RECURSIVE typeLoopPastDisabled(_, _, _, _, _, _)
typeLoopPastDisabled(dev, string, outcomes, i, errorCode, sent) ==
    IF i > Len(string)
      THEN Result(IF errorCode = -3 THEN -2 ELSE errorCode, sent, FALSE, FALSE, <<>>)
    ELSE IF Unencodable(string[i])
      THEN typeLoopPastDisabled(dev, string, outcomes, i + 1, errorCode, sent)
    ELSE LET key == <<"Lit_">> \o UriEscape(<<string[i]>>, FALSE)
             k == rokuSendKey(dev, key, outcomes[i])
         IN  typeLoopPastDisabled(dev, string, outcomes, i + 1,
                                  IF errorCode = -3 THEN -3 ELSE k.ret, sent \o k.sent)

\* Lines 805-828 from character i on; errorCode and sent are the state of
\* the loop.
RECURSIVE typeLoop(_, _, _, _, _, _)
typeLoop(dev, string, outcomes, i, errorCode, sent) ==
    IF i > Len(string) THEN Result(errorCode, sent, FALSE, FALSE, <<>>)
    ELSE IF Unencodable(string[i])
      THEN typeLoop(dev, string, outcomes, i + 1, errorCode, sent)
    ELSE LET key == <<"Lit_">> \o UriEscape(<<string[i]>>, FALSE)
             k == rokuSendKey(dev, key, outcomes[i])
         IN  IF k.ret = -3
             THEN Result(-2, sent \o k.sent, FALSE, FALSE, <<>>)
             ELSE typeLoop(dev, string, outcomes, i + 1, k.ret, sent \o k.sent)

\* Mutant: the limited-mode check left out.
rokuTypeStringUnchecked(dev, string, outcomes) == typeLoop(dev, string, outcomes, 1, 0, <<>>)

rokuTypeString(dev, string, outcomes) ==
    IF dev.isLimited THEN Result(-1, <<>>, FALSE, FALSE, <<>>)
    ELSE typeLoop(dev, string, outcomes, 1, 0, <<>>)

(***************************************************************************)
(* Spec: one call of an API function.  The caller's records (the device,   *)
(* the channel) hold anything before the call; the inputs of the call and  *)
(* what the transport answers are drawn from the sets below.               *)
(***************************************************************************)
MaxInfoKids == 2    \* most children of the device-info root
MaxChanKids == 2    \* most children of a channel element
MaxRootKids == 2    \* most children of a list root
MaxList == 2        \* largest maxChannels / maxApps
MaxStr == 2         \* longest string typed

SeqsUpTo(S, n) == UNION {[1..k -> S] : k \in 0..n}

Url == <<"h", "t", "t", "p", ":", "/", "/", "t", "v">>

\* A url of sizeof(device->url) characters: one more than device->url holds.
LongUrl == Url \o [i \in 1..(SizeUrl - Len(Url)) |-> "x"]

Flags == [isTV : BOOLEAN, isOn : BOOLEAN, isLimited : BOOLEAN, developerMode : BOOLEAN,
          hasSearchSupport : BOOLEAN, hasHeadphoneSupport : BOOLEAN,
          headphonesConnected : BOOLEAN]

DeviceWith(f) ==
    [url |-> Url, name |-> T_old, location |-> T_old, model |-> T_old, serial |-> T_old,
     resolution |-> T_old, macAddress |-> T_old, softwareVersion |-> T_old,
     isTV |-> f.isTV, isOn |-> f.isOn, isLimited |-> f.isLimited,
     developerMode |-> f.developerMode, hasSearchSupport |-> f.hasSearchSupport,
     hasHeadphoneSupport |-> f.hasHeadphoneSupport,
     headphonesConnected |-> f.headphonesConnected]

InitDevices == {DeviceWith(f) : f \in Flags}

\* A RokuExtTVChannel never written, and one a previous call filled while
\* the channel was active.
JunkExtChannel ==
    [channel |-> JunkChannel, isActive |-> TRUE,
     program |-> [title |-> <<JUNK>>, description |-> <<JUNK>>, rating |-> <<JUNK>>,
                  hasCC |-> TRUE],
     signalReceived |-> TRUE, resolution |-> <<JUNK>>,
     signalQuality |-> 255, signalStrength |-> -1]

PreviousExtChannel ==
    [channel |-> [id |-> <<"9">>, name |-> T_old, type |-> T_old, network |-> T_old,
                  physicalChannel |-> 9, frequency |-> 9000],
     isActive |-> TRUE,
     program |-> [title |-> T_old, description |-> T_old, rating |-> T_old, hasCC |-> TRUE],
     signalReceived |-> TRUE, resolution |-> T_old,
     signalQuality |-> 50, signalStrength |-> -20]

InitChannels == {JunkExtChannel, PreviousExtChannel}

\* The documents of Spec: one of each shape the callers tell apart.
\* SpecInfo and SpecChannel go through the documents in detail.
CoarseInfoBodies ==
    {MalformedBody, NoRootBody,
     XmlBody(Elem("device-info", <<>>, NoAttrs, <<>>)),
     XmlBody(Elem("device-info", <<>>, NoAttrs,
                  <<TextNode, Leaf("is-tv", T_true), Leaf("ecp-setting-mode", T_limited),
                    Leaf("search-enabled", T_true)>>))}

CoarseChannelBodies ==
    {MalformedBody, NoRootBody,
     XmlBody(Elem("tv-channel", <<>>, NoAttrs, <<>>)),
     XmlBody(Elem("tv-channel", <<>>, NoAttrs, <<TextNode>>)),
     XmlBody(Elem("tv-channel", <<>>, NoAttrs,
                  <<Elem("channel", <<>>, NoAttrs,
                         <<Leaf("channel-id", <<"3">>), Leaf("active-input", T_true),
                           Leaf("program-title", <<"N", "e", "w", "s">>)>>)>>)),
     XmlBody(Elem("tv-channel", <<>>, NoAttrs,
                  <<TextNode, Elem("channel", <<>>, NoAttrs,
                                   <<Leaf("channel-id", <<"3">>),
                                     Leaf("active-input", T_false)>>)>>))}

NoCall == [op |-> "none"]

\* The answers to a command: the body is not read.
CommandOutcomes == Outcomes({MalformedBody})

\* device-info documents
DeviceInfoNodes ==
    {Leaf("is-tv", c) : c \in {T_true, T_truex, T_false, T_limited}}
      \cup {Leaf("ecp-setting-mode", c) : c \in {T_limited, T_enabled}}
      \cup {Leaf("power-mode", T_PowerOn), Leaf("search-enabled", T_true),
            Leaf("developer-enabled", T_true), Leaf("supports-private-listening", T_true),
            Leaf("headphones-connected", T_true),
            Leaf("user-device-name", <<"D", "e", "n">>), TextNode}

DeviceInfoBodies ==
    {MalformedBody, NoRootBody}
      \cup {XmlBody(Elem("device-info", <<>>, NoAttrs, k)) :
                k \in SeqsUpTo(DeviceInfoNodes, MaxInfoKids)}

\* tv-active-channel documents
ChannelLeaves ==
    {Leaf("channel-id", <<"3">>), Leaf("physical-channel", <<"4", "2">>),
     Leaf("physical-frequency", <<"6", "0", "9", "0", "0", "0">>),
     Leaf("active-input", T_true), Leaf("active-input", T_false),
     Leaf("program-title", <<"N", "e", "w", "s">>), Leaf("program-has-cc", T_true),
     Leaf("signal-state", T_none), Leaf("signal-quality", <<"8", "0">>),
     Leaf("signal-strength", <<"-", "5">>)}

ChannelElements ==
    {Elem("channel", <<>>, NoAttrs, k) : k \in SeqsUpTo(ChannelLeaves, MaxChanKids)}

ActiveChannelBodies ==
    {MalformedBody, NoRootBody}
      \cup {XmlBody(Elem("tv-channel", <<>>, NoAttrs, k)) :
                k \in {<<>>, <<TextNode>>, <<TextNode, TextNode>>, <<TextNode, CommentNode>>}
                        \cup {<<c>> : c \in ChannelElements}
                        \cup {<<TextNode, c>> : c \in ChannelElements}}

\* tv-channels documents
ListedChannels ==
    {Elem("channel", <<>>, NoAttrs, <<>>),
     Elem("channel", <<>>, NoAttrs, <<Leaf("channel-id", <<"3">>)>>),
     Elem("channel", <<>>, NoAttrs,
          <<Leaf("channel-id", <<"5">>), Leaf("physical-channel", <<"4", "2">>),
            Leaf("physical-frequency", <<"6", "0", "9", "0", "0", "0">>)>>),
     Elem("channel", <<>>, NoAttrs,
          <<Leaf("physical-channel", <<"1", "3", "5">>),
            Leaf("physical-frequency", <<"1", "0", "0", "0", "0", "0", "0">>)>>),
     TextNode}

ChannelListBodies ==
    {MalformedBody, NoRootBody}
      \cup {XmlBody(Elem("tv-channels", <<>>, NoAttrs, k)) :
                k \in SeqsUpTo(ListedChannels, MaxRootKids)}

\* apps and active-app documents
AppNodes ==
    {Elem("app", <<"N", "f">>, [n \in {"id", "type"} |-> IF n = "id" THEN <<"1", "2">>
                                                         ELSE <<"a", "p", "p", "l">>], <<>>),
     Elem("app", NULL, NoAttrs, <<>>),
     TextNode}

AppBodies ==
    {MalformedBody, NoRootBody}
      \cup {XmlBody(Elem("apps", <<>>, NoAttrs, k)) : k \in SeqsUpTo(AppNodes, MaxRootKids)}

PreviousApp == [id |-> T_old, name |-> T_old, type |-> T_old, version |-> T_old]

\* icon answers
IconOutcomes ==
    {TransportError(c) : c \in TransportErrorCodes}
      \cup {HttpResponse(s, BytesBody(b)) :
                s \in FailureStatuses \cup {SOUP_STATUS_OK}, b \in {<<>>, <<"i", "c">>}}

\* keys
KeyInputs ==
    {<<"VolumeUp">>, <<"VolumeDown">>, <<"VolumeMute">>, <<"PowerOff">>, <<"ChannelUp">>,
     <<"ChannelDown">>, <<"InputTuner">>, <<"InputHDMI1">>, <<"InputHDMI2">>,
     <<"InputHDMI3">>, <<"InputHDMI4">>, <<"InputAV1">>,
     <<"Home">>, <<"Select">>, <<"Lit_", "a">>, <<"PowerOn">>}

\* launch parameters
PairLists ==
    { [names |-> <<>>, values |-> <<>>],
      [names |-> << <<"k">> >>, values |-> << <<"v">> >>],
      [names |-> << <<"k">>, <<"a", "&">> >>, values |-> << <<"v">>, <<"x", " ", "y">> >>] }

LaunchInputs ==
    {LaunchParams(<<"1", "2">>, c, t, p.names, p.values) :
        c \in {<<>>, <<"a", "/", "b">>}, t \in MediaTypes, p \in PairLists}

\* the id of the channel launched
ChannelIds == {<<"3", ".", "1">>, <<"1", "2">>}

\* search parameters
NoProviders == [i \in 1..8 |-> <<>>]
DefaultSearch ==
    [type |-> "NONE", includeUnavailable |-> FALSE, tmsID |-> <<>>, season |-> 0,
     autoSelect |-> FALSE, autoLaunch |-> FALSE, providerIDs |-> NoProviders]

SearchInputs ==
    {[DefaultSearch EXCEPT !.type = t] : t \in SearchTypes}
      \cup {[DefaultSearch EXCEPT !.includeUnavailable = TRUE],
            [DefaultSearch EXCEPT !.autoSelect = TRUE],
            [DefaultSearch EXCEPT !.autoLaunch = TRUE],
            [DefaultSearch EXCEPT !.season = 12],
            [DefaultSearch EXCEPT !.tmsID = <<"M", "V", "1">>],
            [DefaultSearch EXCEPT !.providerIDs = [NoProviders EXCEPT ![1] = <<"1", "2">>]],
            [DefaultSearch EXCEPT !.providerIDs = [NoProviders EXCEPT ![2] = <<"1", "3">>]],
            [type |-> "SHOW", includeUnavailable |-> TRUE, tmsID |-> <<"M", "V", "1">>,
             season |-> 3, autoSelect |-> TRUE, autoLaunch |-> TRUE,
             providerIDs |-> [NoProviders EXCEPT ![1] = <<"1", "2">>, ![3] = <<"7">>]]}

Keywords == {<<>>, <<"F", "r">>, <<"a", " ", "b">>}

\* typed strings, and what the transport does with each keypress
TypedStrings == SeqsUpTo({"H", "!", "U+2603"}, MaxStr)

KeypressOutcomes ==
    {HttpResponse(SOUP_STATUS_OK, MalformedBody),
     HttpResponse(SOUP_STATUS_UNAUTHORIZED, MalformedBody),
     TransportError(24)}

Init ==
    /\ noStrlcpy \in BOOLEAN
    /\ pc = "idle"
    /\ device \in InitDevices
    /\ channel = PreviousExtChannel
    /\ call = NoCall
    /\ fpc = "off" /\ fnode = <<>> /\ fattr = FALSE /\ fmap = <<>>
    /\ fmem0 = <<>> /\ fmem = <<>>
    /\ dpc = "off" /\ disc = <<>>

\* The call returns (or the process dies): what it did is recorded in call.
Finish(op, in, r) ==
    /\ pc' = IF r.crashed THEN "crashed" ELSE "returned"
    /\ call' = [op |-> op, in |-> in, ret |-> r.ret, sent |-> r.sent,
                parsed |-> r.parsed, out |-> r.out]
    /\ UNCHANGED noStrlcpy
    /\ UNCHANGED fillVars
    /\ UNCHANGED discVars

GetRokuDeviceOver(bodies) ==
    /\ pc = "idle"
    /\ \E url \in {Url, LongUrl}, outcome \in Outcomes(bodies), stack \in StackStates :
       \E behaviour \in Behaviours(outcome), overrun \in QueryUrlBehaviours(url) :
         LET r == getRokuDevice(url, device, outcome, behaviour, overrun, stack, noStrlcpy)
         IN  /\ Finish("getRokuDevice",
                       [url |-> url, outcome |-> outcome, stack |-> stack,
                        queryURL |-> queryURLCells(url)], r)
             /\ device' = r.out
             /\ UNCHANGED channel

RokuSendKey ==
    /\ pc = "idle"
    /\ \E key \in KeyInputs, outcome \in CommandOutcomes :
         /\ Finish("rokuSendKey", [key |-> key, outcome |-> outcome],
                   rokuSendKey(device, key, outcome))
         /\ UNCHANGED <<device, channel>>

GetRokuTVChannels ==
    /\ pc = "idle"
    /\ \E maxChannels \in 0..MaxList, outcome \in Outcomes(ChannelListBodies),
          stack \in StackStates :
       \E behaviour \in Behaviours(outcome) :
         /\ Finish("getRokuTVChannels",
                   [maxChannels |-> maxChannels, outcome |-> outcome, stack |-> stack],
                   getRokuTVChannels(device, maxChannels, outcome, behaviour, stack, noStrlcpy))
         /\ UNCHANGED <<device, channel>>

GetActiveRokuTVChannelOver(bodies) ==
    /\ pc = "idle"
    /\ \E outcome \in Outcomes(bodies), stack \in StackStates :
       \E behaviour \in Behaviours(outcome) :
         LET r == getActiveRokuTVChannel(device, channel, outcome, behaviour, stack, noStrlcpy)
         IN  /\ Finish("getActiveRokuTVChannel",
                       [before |-> channel, outcome |-> outcome, stack |-> stack], r)
             /\ channel' = r.out
             /\ UNCHANGED device

GetRokuDevice == GetRokuDeviceOver(CoarseInfoBodies)

GetActiveRokuTVChannel == GetActiveRokuTVChannelOver(CoarseChannelBodies)

LaunchRokuTVChannel ==
    /\ pc = "idle"
    /\ \E id \in ChannelIds, outcome \in CommandOutcomes :
         /\ Finish("launchRokuTVChannel", [id |-> id, outcome |-> outcome],
                   launchRokuTVChannel(device, [id |-> id], outcome))
         /\ UNCHANGED <<device, channel>>

GetRokuApps ==
    /\ pc = "idle"
    /\ \E maxApps \in 0..MaxList, outcome \in Outcomes(AppBodies) :
       \E behaviour \in Behaviours(outcome) :
         /\ Finish("getRokuApps", [maxApps |-> maxApps, outcome |-> outcome],
                   getRokuApps(device, maxApps, outcome, behaviour, noStrlcpy))
         /\ UNCHANGED <<device, channel>>

GetActiveRokuApp ==
    /\ pc = "idle"
    /\ \E outcome \in Outcomes(AppBodies) :
       \E behaviour \in Behaviours(outcome) :
         /\ Finish("getActiveRokuApp", [outcome |-> outcome],
                   getActiveRokuApp(device, PreviousApp, outcome, behaviour, noStrlcpy))
         /\ UNCHANGED <<device, channel>>

LaunchRokuApp ==
    /\ pc = "idle"
    /\ \E params \in LaunchInputs, outcome \in CommandOutcomes :
         /\ Finish("launchRokuApp", [params |-> params, outcome |-> outcome],
                   launchRokuApp(device, params, outcome))
         /\ UNCHANGED <<device, channel>>

GetRokuAppIcon ==
    /\ pc = "idle"
    /\ \E outcome \in IconOutcomes :
       \E behaviour \in IconBehaviours(outcome) :
         /\ Finish("getRokuAppIcon", [outcome |-> outcome],
                   getRokuAppIcon(device, [id |-> <<"1", "2">>], outcome, behaviour))
         /\ UNCHANGED <<device, channel>>

SendCustomRokuInput ==
    /\ pc = "idle"
    /\ \E p \in PairLists, outcome \in CommandOutcomes :
         /\ Finish("sendCustomRokuInput", [params |-> p, outcome |-> outcome],
                   sendCustomRokuInput(device, p.names, p.values, outcome))
         /\ UNCHANGED <<device, channel>>

RokuSearch ==
    /\ pc = "idle"
    /\ \E keyword \in Keywords, params \in SearchInputs, outcome \in CommandOutcomes :
         /\ Finish("rokuSearch",
                   [keyword |-> keyword, params |-> params, outcome |-> outcome],
                   rokuSearch(device, keyword, params, outcome))
         /\ UNCHANGED <<device, channel>>

RokuTypeString ==
    /\ pc = "idle"
    /\ \E string \in TypedStrings :
       \E outcomes \in [1..Len(string) -> KeypressOutcomes] :
         /\ Finish("rokuTypeString", [string |-> string, outcomes |-> outcomes],
                   rokuTypeString(device, string, outcomes))
         /\ UNCHANGED <<device, channel>>

Next ==
    \/ GetRokuDevice
    \/ RokuSendKey
    \/ GetRokuTVChannels
    \/ GetActiveRokuTVChannel
    \/ LaunchRokuTVChannel
    \/ GetRokuApps
    \/ GetActiveRokuApp
    \/ LaunchRokuApp
    \/ GetRokuAppIcon
    \/ SendCustomRokuInput
    \/ RokuSearch
    \/ RokuTypeString

Spec == Init /\ [][Next]_vars

(***************************************************************************)
(* SpecInfo: getRokuDevice over the device-info documents in detail        *)
(***************************************************************************)
AllFlags(v) ==
    [isTV |-> v, isOn |-> v, isLimited |-> v, developerMode |-> v,
     hasSearchSupport |-> v, hasHeadphoneSupport |-> v, headphonesConnected |-> v]

InitInfo ==
    /\ noStrlcpy \in BOOLEAN
    /\ pc = "idle"
    /\ device \in {DeviceWith(AllFlags(v)) : v \in BOOLEAN}
    /\ channel = PreviousExtChannel
    /\ call = NoCall
    /\ fpc = "off" /\ fnode = <<>> /\ fattr = FALSE /\ fmap = <<>>
    /\ fmem0 = <<>> /\ fmem = <<>>
    /\ dpc = "off" /\ disc = <<>>

GetRokuDeviceDetailed == GetRokuDeviceOver(DeviceInfoBodies)

NextInfo == GetRokuDeviceDetailed

SpecInfo == InitInfo /\ [][NextInfo]_vars

(***************************************************************************)
(* SpecChannel: getActiveRokuTVChannel over the tv-active-channel          *)
(* documents in detail                                                     *)
(***************************************************************************)
InitChannel ==
    /\ noStrlcpy \in BOOLEAN
    /\ pc = "idle"
    /\ device \in {DeviceWith([AllFlags(FALSE) EXCEPT !.isTV = tv, !.isLimited = lim]) :
                      tv \in BOOLEAN, lim \in BOOLEAN}
    /\ channel \in InitChannels
    /\ call = NoCall
    /\ fpc = "off" /\ fnode = <<>> /\ fattr = FALSE /\ fmap = <<>>
    /\ fmem0 = <<>> /\ fmem = <<>>
    /\ dpc = "off" /\ disc = <<>>

GetActiveRokuTVChannelDetailed == GetActiveRokuTVChannelOver(ActiveChannelBodies)

NextChannel == GetActiveRokuTVChannelDetailed

SpecChannel == InitChannel /\ [][NextChannel]_vars

(***************************************************************************)
(* findRokuDevices (src/rokuecp.c:158-185), its callbacks (42-45, 65-74)   *)
(* and the GLib main loop that runs them.                                  *)
(*   dpc   "start" | "running" | "returned" | "failed" | "crashed"         *)
(*   disc  callbackData (devicesFound, deviceList, maxDevices,             *)
(*         deviceStrSize), the loop's quit flag, the timer, and a record   *)
(*         of what the callbacks did                                       *)
(* g_main_loop_quit only clears the loop's running flag: sources that are  *)
(* ready in the same iteration are still dispatched before                 *)
(* g_main_loop_run returns.                                                *)
(***************************************************************************)
MaxDevices == 2         \* largest maxDevices tried
MaxResponses == 3       \* most resource-available signals in one run

UrlStringSize == 30

Locations == {<<"h", "1">>, <<"h", "2">>}

\* gssdp_client_new_full fails with GSSDP_ERROR_NO_IP_ADDRESS (0) or
\* GSSDP_ERROR_FAILED (1).
SetupErrorCodes == {0, 1}

DiscStart(maxDevices) ==
    [maxDevices |-> maxDevices,
     deviceStrSize |-> UrlStringSize,
     deviceList |-> [i \in 1..maxDevices |-> <<JUNK>>],
     devicesFound |-> 0,
     quit |-> FALSE,            \* g_main_loop_quit has been called
     timerFired |-> FALSE,      \* the 5-second source has run (and removed itself)
     responses |-> 0,           \* resource-available signals delivered
     written |-> <<>>,          \* the indexes (from 0) the callback wrote at
     heard |-> <<>>,            \* the locations announced, in arrival order
     ret |-> 0]

\* Mutant: the timeout callback returns without quitting the loop.
ssdpQuitGMainLoopCallbackNoQuit(d) == [d EXCEPT !.timerFired = TRUE]

\* Lines 42-45
ssdpQuitGMainLoopCallback(d) == [d EXCEPT !.quit = TRUE, !.timerFired = TRUE]

\* Line 68: devicesFound >= maxDevices - 1, computed in size_t.  With
\* maxDevices = 0 the right-hand side is SIZE_MAX, which no count reaches.
listEndReached(d) ==
    IF d.maxDevices = 0 THEN FALSE ELSE d.devicesFound >= d.maxDevices - 1

\* Lines 65-74.  The write at deviceList[devicesFound] is inside the
\* caller's array only when devicesFound < maxDevices.
ssdpResourceAvailableCallback(d, location, fallback) ==
    LET d1 == IF listEndReached(d) THEN [d EXCEPT !.quit = TRUE] ELSE d
        k == d.devicesFound
    IN  [d1 EXCEPT
            !.deviceList =
                IF k < d.maxDevices
                THEN [@ EXCEPT ![k + 1] =
                        CStr(strlcpy(BufOf(@, d.deviceStrSize), location,
                                     d.deviceStrSize, fallback))]
                ELSE @,
            !.devicesFound = k + 1,
            !.written = Append(@, k),
            !.heard = Append(@, location),
            !.responses = @ + 1]

InitDisc ==
    /\ noStrlcpy \in BOOLEAN
    /\ dpc = "start"
    /\ disc \in {DiscStart(n) : n \in 0..MaxDevices}
    /\ pc = "off" /\ device = <<>> /\ channel = <<>> /\ call = <<>>
    /\ fpc = "off" /\ fnode = <<>> /\ fattr = FALSE /\ fmap = <<>>
    /\ fmem0 = <<>> /\ fmem = <<>>

DiscFrame == UNCHANGED <<noStrlcpy, fpc, fnode, fattr, fmap, fmem0, fmem,
                         pc, device, channel, call>>

\* Lines 160-178: the session is set up and the loop starts.
SetupDone ==
    /\ dpc = "start"
    /\ dpc' = "running"
    /\ UNCHANGED disc
    /\ DiscFrame

\* Lines 162-167: gssdp_client_new_full reports an error.
SetupFails ==
    /\ dpc = "start"
    /\ \E code \in SetupErrorCodes :
         disc' = [disc EXCEPT !.ret = 0 - code]
    /\ dpc' = "failed"
    /\ DiscFrame

\* The browser signals resource-available while the loop runs.  A write
\* outside the caller's array either corrupts memory silently or kills the
\* process.
ResourceAvailable ==
    /\ dpc = "running"
    /\ disc.responses < MaxResponses
    /\ \E location \in Locations :
         disc' = ssdpResourceAvailableCallback(disc, location, noStrlcpy)
    /\ \/ dpc' = dpc
       \/ /\ disc.devicesFound >= disc.maxDevices
          /\ dpc' = "crashed"
    /\ DiscFrame

\* The 5-second timeout source fires, once.
TimerFires ==
    /\ dpc = "running"
    /\ ~disc.timerFired
    /\ disc' = ssdpQuitGMainLoopCallback(disc)
    /\ UNCHANGED dpc
    /\ DiscFrame

\* Lines 178-184: g_main_loop_run returns once quit was requested.
LoopExits ==
    /\ dpc = "running"
    /\ disc.quit
    /\ disc' = [disc EXCEPT !.ret = disc.devicesFound]
    /\ dpc' = "returned"
    /\ DiscFrame

NextDisc ==
    \/ SetupDone
    \/ SetupFails
    \/ ResourceAvailable
    \/ TimerFires
    \/ LoopExits

SpecDisc == InitDisc /\ [][NextDisc]_vars

\* The main loop dispatches a due timeout source and returns once its
\* running flag is cleared.
FairSpecDisc == SpecDisc /\ WF_vars(TimerFires) /\ WF_vars(LoopExits)

(***************************************************************************)
(* The claims                                                              *)
(***************************************************************************)
Called(op) == pc \in {"returned", "crashed"} /\ call.op = op

\* The error code an operation documents for a device it refuses locally.
RefusalCode(op, dev) ==
    CASE op = "getRokuTVChannels" -> IF ~dev.isTV THEN -4 ELSE -5
      [] op = "getActiveRokuTVChannel" -> IF ~dev.isTV THEN -3 ELSE -4
      [] op = "getRokuApps" -> -4
      [] op \in {"getRokuAppIcon", "rokuSearch", "sendCustomRokuInput", "rokuTypeString"} -> -1

LimitedOps ==
    {"getRokuTVChannels", "getActiveRokuTVChannel", "getRokuApps", "getRokuAppIcon",
     "rokuSearch", "sendCustomRokuInput", "rokuTypeString"}

\* C1: on a device with isLimited = TRUE each of the seven operations
\* returns its negative capability-error code and sends no request,
\* whatever the other flags and the parameters are.
C1_LimitedDeviceRejectedLocally ==
    (pc \in {"returned", "crashed"} /\ call.op \in LimitedOps /\ device.isLimited)
        => /\ pc = "returned"
           /\ call.ret = RefusalCode(call.op, device)
           /\ call.ret < 0
           /\ call.sent = <<>>

C1_Witness ==
    /\ Called("rokuTypeString")
    /\ device.isLimited /\ device.isTV /\ device.hasSearchSupport
    /\ Len(call.in.string) = MaxStr
    /\ call.ret = -1

TvOnlyKeyNames ==
    {"VolumeUp", "VolumeDown", "VolumeMute", "PowerOff", "ChannelUp", "ChannelDown",
     "InputTuner", "InputHDMI1", "InputHDMI2", "InputHDMI3", "InputHDMI4", "InputAV1"}

\* C2: rokuSendKey on a device that is not a TV returns -1 and sends
\* nothing for each of the 12 TV-only keys; for any other key, or on a TV,
\* it does not return -1.
C2_TvOnlyKeyRejected ==
    Called("rokuSendKey") =>
        LET tvOnly == \E n \in TvOnlyKeyNames : call.in.key = <<n>>
        IN  IF ~device.isTV /\ tvOnly
            THEN call.ret = -1 /\ call.sent = <<>>
            ELSE call.ret # -1

C2_Witness ==
    /\ Called("rokuSendKey")
    /\ ~device.isTV /\ ~device.isLimited
    /\ call.in.key = <<"InputAV1">>
    /\ call.ret = -1 /\ call.sent = <<>>

\* C3: getRokuTVChannels, getActiveRokuTVChannel and launchRokuTVChannel on
\* a device with isTV = FALSE return -4, -3 and -2 and send no request.
C3_NotATvRejected ==
    (pc \in {"returned", "crashed"} /\ ~device.isTV
        /\ call.op \in {"getRokuTVChannels", "getActiveRokuTVChannel", "launchRokuTVChannel"})
        => /\ pc = "returned"
           /\ call.ret = (CASE call.op = "getRokuTVChannels" -> -4
                            [] call.op = "getActiveRokuTVChannel" -> -3
                            [] call.op = "launchRokuTVChannel" -> -2)
           /\ call.sent = <<>>

C3_Witness ==
    /\ Called("launchRokuTVChannel")
    /\ ~device.isTV /\ ~device.isLimited
    /\ call.ret = -2 /\ call.sent = <<>>

QueryOps ==
    {"getRokuDevice", "getRokuTVChannels", "getActiveRokuTVChannel", "getRokuApps",
     "getActiveRokuApp"}

\* The value a query returns when it succeeded: a count for the two lists,
\* 0 for the others.
IsSuccessValue(op, ret) ==
    IF op \in {"getRokuTVChannels", "getRokuApps"} THEN ret >= 0 ELSE ret = 0

\* C4: when the transport of a query fails before any HTTP status is
\* known, whatever the error code, the call returns a failure value and
\* never reaches the XML parser.
C4_TransportFailureFails ==
    (pc \in {"returned", "crashed"} /\ call.op \in QueryOps
        /\ call.sent # <<>> /\ call.in.outcome.error)
        => /\ pc = "returned"
           /\ ~IsSuccessValue(call.op, call.ret)
           /\ ~call.parsed

\* C5: getRokuDevice returns -1 when the body is not well-formed, -2 when
\* the document has no root element and -3 when the device answers 401.
C5_DeviceInfoErrorCodes ==
    (Called("getRokuDevice") /\ ~call.in.outcome.error)
        => LET o == call.in.outcome
           IN  /\ (o.status = SOUP_STATUS_OK /\ o.body.kind = "malformed") => call.ret = -1
               /\ (o.status = SOUP_STATUS_OK /\ o.body.kind = "noroot") => call.ret = -2
               /\ o.status = SOUP_STATUS_UNAUTHORIZED => call.ret = -3

\* The text of the last child element called name, NULL when there is none.
RECURSIVE LastText(_, _, _)
LastText(kids, name, k) ==
    IF k = 0 THEN NULL
    ELSE IF kids[k].type = "element" /\ kids[k].name = name THEN kids[k].content
    ELSE LastText(kids, name, k - 1)

ElementText(root, name) == LastText(root.children, name, Len(root.children))

GotDeviceInfo == Called("getRokuDevice") /\ pc = "returned" /\ call.ret = 0

\* C6: after a successful getRokuDevice, isLimited is TRUE exactly when the
\* document's ecp-setting-mode element reads "limited", whatever is-tv says.
C6_IsLimitedFromEcpMode ==
    GotDeviceInfo =>
        (device.isLimited
            <=> ElementText(call.in.outcome.body.root, "ecp-setting-mode") = T_limited)

\* The mappings of the fillFromXML call of SpecFill.
FillEntries == 1..Len(fmap)

\* TRUE when the container has an attribute (attribute mode) or a child
\* element (child-element mode) with the name of mapping i.
FillMatched(i) ==
    IF fattr THEN fmap[i].elementName \in DOMAIN fnode.attrs
    ELSE \E k \in 1..Len(fnode.children) :
            /\ fnode.children[k].type = "element"
            /\ fnode.children[k].name = fmap[i].elementName

\* C7: after fillFromXML, in either mode, every destination whose source
\* name matches nothing in the node holds the empty string, whatever it
\* held before.
C7_AbsentFieldIsEmpty ==
    fpc = "done" =>
        \A i \in FillEntries :
            ~FillMatched(i) => CStr(fmem[fmap[i].destString]) = <<>>

C7_Witness ==
    /\ fpc = "done"
    /\ \E i, j \in FillEntries :
         /\ ~FillMatched(i)
         /\ CStr(fmem0[fmap[i].destString]) = T_old
         /\ CStr(fmem[fmap[i].destString]) = <<>>
         /\ FillMatched(j)
         /\ CStr(fmem[fmap[j].destString]) # <<>>

\* The source texts copied for mapping i, in the order they are copied:
\* the attribute's value, or the text of each child whose name the mapping
\* is the first to carry.
FillSources(i) ==
    IF fattr
    THEN (IF fmap[i].elementName \in DOMAIN fnode.attrs
          THEN <<fnode.attrs[fmap[i].elementName]>> ELSE <<>>)
    ELSE SelectSeq([k \in 1..Len(fnode.children) |->
                       IF /\ fnode.children[k].name = fmap[i].elementName
                          /\ \A j \in 1..(i - 1) : fmap[j].elementName # fmap[i].elementName
                       THEN fnode.children[k].content ELSE NULL],
                   LAMBDA t : t # NULL)

\* C8: for a mapping of capacity c >= 1 and a source text of length n, the
\* destination holds the first min(n, c-1) characters of the source and
\* then a terminator, and no cell at index c or beyond is written.
C8_TruncatedAndTerminated ==
    fpc = "done" =>
        \A i \in FillEntries :
            LET b == fmap[i].destString
                c == fmap[i].destSize
                srcs == FillSources(i)
            IN  /\ \A x \in (c + 1)..Len(fmem[b]) : fmem[b][x] = fmem0[b][x]
                /\ srcs # <<>> =>
                     LET src == srcs[Len(srcs)]
                         n == Min(Len(src), c - 1)
                     IN  /\ SubSeq(fmem[b], 1, n) = SubSeq(src, 1, n)
                         /\ fmem[b][n + 1] = NUL

C8_Witness ==
    /\ fpc = "done"
    /\ \E i \in FillEntries :
         LET srcs == FillSources(i)
         IN  /\ srcs # <<>>
             /\ Len(srcs[Len(srcs)]) > fmap[i].destSize
             /\ fmap[i].destSize = MaxCap
             /\ Len(CStr(fmem[fmap[i].destString])) = MaxCap - 1

\* C9: after a successful getActiveRokuTVChannel that reports
\* isActive = FALSE, the program fields and the resolution are empty,
\* hasCC and signalReceived are FALSE and both signal numbers are 0.
C9_InactiveChannelIsBlank ==
    (Called("getActiveRokuTVChannel") /\ pc = "returned" /\ call.ret = 0 /\ ~channel.isActive)
        => /\ channel.program.title = <<>>
           /\ channel.program.description = <<>>
           /\ channel.program.rating = <<>>
           /\ channel.resolution = <<>>
           /\ channel.program.hasCC = FALSE
           /\ channel.signalReceived = FALSE
           /\ channel.signalQuality = 0
           /\ channel.signalStrength = 0

\* An inactive channel whose document carries a program title, read into a
\* record that held a program before.
C9_Witness ==
    /\ Called("getActiveRokuTVChannel") /\ pc = "returned" /\ call.ret = 0
    /\ ~channel.isActive
    /\ call.in.before.program.title = T_old
    /\ \E k \in 1..Len(call.in.outcome.body.root.children) :
         LET el == call.in.outcome.body.root.children[k]
         IN  ElementText(el, "program-title") # NULL

\* C10: once the session is set up the wait loop always ends, and it is
\* told to end only by the timer or by the callback that records the
\* maxDevices-th entry.
C10_DiscoveryTerminates ==
    /\ (dpc = "running") ~> (dpc \in {"returned", "crashed"})
    /\ [](dpc \in {"running", "returned", "crashed"} /\ disc.quit
            => \/ disc.timerFired
               \/ (disc.maxDevices >= 1 /\ disc.devicesFound >= disc.maxDevices))

\* The loop ended by the timer with fewer devices than asked for.
C10_Witness ==
    /\ dpc = "returned"
    /\ disc.timerFired
    /\ disc.maxDevices = MaxDevices
    /\ disc.devicesFound < disc.maxDevices
    /\ disc.ret = disc.devicesFound

\* The entries of deviceList the call has filled, in index order.
FilledEntries ==
    [i \in 1..Min(disc.devicesFound, disc.maxDevices) |-> disc.deviceList[i]]

\* C11: when at least maxDevices >= 1 services have been announced,
\* findRokuDevices returns exactly maxDevices, the first maxDevices
\* announcements fill the list in arrival order and nothing else is
\* written, and the quit request was made by the callback that recorded the
\* maxDevices-th entry.
C11_ReturnsExactlyMaxDevices ==
    (dpc = "returned" /\ disc.maxDevices >= 1 /\ Len(disc.heard) >= disc.maxDevices)
        => /\ disc.ret = disc.maxDevices
           /\ disc.written = [i \in 1..disc.maxDevices |-> i - 1]
           /\ \A i \in 1..disc.maxDevices : disc.deviceList[i] = disc.heard[i]
           /\ disc.quit

\* C12: when findRokuDevices returns a count k with 0 <= k < maxDevices,
\* every entry from k on is the empty string.
C12_RemainingSlotsCleared ==
    (dpc = "returned" /\ disc.ret < disc.maxDevices)
        => \A i \in (disc.ret + 1)..disc.maxDevices : disc.deviceList[i] = <<>>

\* C13: the list never holds the same location twice, and an announcement
\* of a location already in the list does not make the count grow.
C13_NoDuplicateLocations ==
    dpc \in {"running", "returned"}
        => /\ \A i, j \in DOMAIN FilledEntries :
                i # j => FilledEntries[i] # FilledEntries[j]
           /\ disc.devicesFound <= Cardinality({disc.heard[i] : i \in DOMAIN disc.heard})

\* C14: a failed session setup returns a strictly negative value, whatever
\* the error code is.
C14_SetupFailureIsNegative ==
    dpc = "failed" => disc.ret < 0

\* The characters '?', '&' and '=' of the literal pieces of a URL, set apart
\* from the names and values around them.
Spell(piece) ==
    CASE piece = "?contentId=" -> <<"?", "contentId", "=">>
      [] piece = "MediaType=movie" -> <<"MediaType", "=", "movie">>
      [] piece = "MediaType=series" -> <<"MediaType", "=", "series">>
      [] piece = "MediaType=season" -> <<"MediaType", "=", "season">>
      [] piece = "MediaType=episode" -> <<"MediaType", "=", "episode">>
      [] piece = "MediaType=shortFormVideo" -> <<"MediaType", "=", "shortFormVideo">>
      [] piece = "MediaType=tvSpecial" -> <<"MediaType", "=", "tvSpecial">>
      [] piece = "/search/browse?keyword=" -> <<"/search/browse", "?", "keyword", "=">>
      [] piece = "&type=movie" -> <<"&", "type", "=", "movie">>
      [] piece = "&type=tv-show" -> <<"&", "type", "=", "tv-show">>
      [] piece = "&type=person" -> <<"&", "type", "=", "person">>
      [] piece = "&type=channel" -> <<"&", "type", "=", "channel">>
      [] piece = "&type=game" -> <<"&", "type", "=", "game">>
      [] piece = "&show-unavailable=true" -> <<"&", "show-unavailable", "=", "true">>
      [] piece = "&launch=true" -> <<"&", "launch", "=", "true">>
      [] piece = "&match-any=true" -> <<"&", "match-any", "=", "true">>
      [] piece = "&season=" -> <<"&", "season", "=">>
      [] piece = "&tmsid=" -> <<"&", "tmsid", "=">>
      [] piece = "&provider-id=" -> <<"&", "provider-id", "=">>
      [] OTHER -> <<piece>>

RECURSIVE Spelled(_)
Spelled(url) == IF url = <<>> THEN <<>> ELSE Spell(Head(url)) \o Spelled(Tail(url))

RECURSIVE JoinWith(_, _)
JoinWith(groups, sep) ==
    IF groups = <<>> THEN <<>>
    ELSE IF Len(groups) = 1 THEN groups[1]
    ELSE groups[1] \o <<sep>> \o JoinWith(Tail(groups), sep)

MediaTypeName(mediaType) ==
    CASE mediaType = "FILM" -> "movie"
      [] mediaType = "SERIES" -> "series"
      [] mediaType = "SEASON" -> "season"
      [] mediaType = "EPISODE" -> "episode"
      [] mediaType = "SHORT_FORM_VIDEO" -> "shortFormVideo"
      [] mediaType = "TV_SPECIAL" -> "tvSpecial"

\* The parameter groups of a launch that are present, in the order contentId,
\* MediaType, extra parameters.
LaunchGroups(params) ==
    (IF params.contentID # <<>>
     THEN << <<"contentId", "=">> \o UriEscape(params.contentID, TRUE) >> ELSE <<>>)
      \o (IF params.mediaType # "NO_TYPE"
          THEN << <<"MediaType", "=", MediaTypeName(params.mediaType)>> >> ELSE <<>>)
      \o [i \in 1..params.numOtherParams |->
            UriEscape(params.otherParamNames[i], TRUE) \o <<"=">>
              \o UriEscape(params.otherParamValues[i], TRUE)]

ExpectedLaunchUrl(dev, params) ==
    dev.url \o <<"/launch/">> \o params.appID
      \o (IF LaunchGroups(params) = <<>> THEN <<>>
          ELSE <<"?">> \o JoinWith(LaunchGroups(params), "&"))

CountOf(s, c) == Cardinality({i \in DOMAIN s : s[i] = c})

\* C15: the URL of launchRokuApp is /launch/{appID}, then '?' and the
\* present groups (contentId, MediaType, the extra parameters in caller
\* order) joined by single '&'; no '?' when no group is present and no
\* trailing '?' or '&'.
C15_LaunchUrlWellFormed ==
    Called("launchRokuApp") =>
        LET url == Spelled(call.sent[1].url)
            groups == LaunchGroups(call.in.params)
        IN  /\ Len(call.sent) = 1
            /\ url = ExpectedLaunchUrl(device, call.in.params)
            /\ CountOf(url, "?") = (IF groups = <<>> THEN 0 ELSE 1)
            /\ CountOf(url, "&") = (IF groups = <<>> THEN 0 ELSE Len(groups) - 1)
            /\ url[Len(url)] \notin {"?", "&"}

\* No content id, no media type, two extra parameters: the first extra
\* parameter follows the '?'.
C15_Witness ==
    /\ Called("launchRokuApp")
    /\ call.in.params.contentID = <<>>
    /\ call.in.params.mediaType = "NO_TYPE"
    /\ call.in.params.numOtherParams = 2
    /\ CountOf(Spelled(call.sent[1].url), "&") = 1

\* What launchRokuApp returns for the outcome of its request.
LaunchResult(outcome) ==
    IF outcome.error THEN outcome.code
    ELSE IF outcome.status = 200 THEN 0
    ELSE IF outcome.status = 401 THEN -1
    ELSE outcome.status

\* C16: launchRokuTVChannel on a TV sends exactly one POST to
\* /launch/tvinput.dtv?chan={id}&lcn={id}&ch={id} and returns what
\* launchRokuApp returns for that request.
C16_TvChannelLaunchUrl ==
    (Called("launchRokuTVChannel") /\ device.isTV) =>
        LET id == call.in.id
        IN  /\ Len(call.sent) = 1
            /\ call.sent[1].method = "POST"
            /\ Spelled(call.sent[1].url) =
                 device.url \o <<"/launch/", "tvinput.dtv", "?", "c", "h", "a", "n", "=">> \o id
                   \o <<"&", "l", "c", "n", "=">> \o id \o <<"&", "c", "h", "=">> \o id
            /\ call.ret = LaunchResult(call.in.outcome)

C16_Witness ==
    /\ Called("launchRokuTVChannel")
    /\ device.isTV
    /\ call.in.id = <<"3", ".", "1">>
    /\ Len(call.sent) = 1
    /\ call.ret = 0

\* C17: rokuSearch with an empty keyword sends no request and returns a
\* negative code, which is -2 on a device that supports search and is not
\* limited.
C17_EmptyKeywordRejected ==
    (Called("rokuSearch") /\ call.in.keyword = <<>>)
        => /\ pc = "returned"
           /\ call.sent = <<>>
           /\ call.ret < 0
           /\ (device.hasSearchSupport /\ ~device.isLimited) => call.ret = -2

C17_Witness ==
    /\ Called("rokuSearch")
    /\ call.in.keyword = <<>>
    /\ device.hasSearchSupport /\ ~device.isLimited
    /\ call.in.params.type = "SHOW"
    /\ call.ret = -2 /\ call.sent = <<>>

SearchTypeName(type) ==
    CASE type = "MOVIE" -> "movie"
      [] type = "SHOW" -> "tv-show"
      [] type = "PERSON" -> "person"
      [] type = "APP" -> "channel"
      [] type = "GAME" -> "game"

\* The search parameters that are present, in the order type,
\* show-unavailable, launch, match-any, season, tmsid.
SearchGroups(params) ==
    (IF params.type # "NONE" THEN << <<"type", "=", SearchTypeName(params.type)>> >> ELSE <<>>)
      \o (IF params.includeUnavailable THEN << <<"show-unavailable", "=", "true">> >> ELSE <<>>)
      \o (IF params.autoLaunch THEN << <<"launch", "=", "true">> >> ELSE <<>>)
      \o (IF params.autoSelect THEN << <<"match-any", "=", "true">> >> ELSE <<>>)
      \o (IF params.season # 0
          THEN << <<"season", "=">> \o DecimalText(params.season) >> ELSE <<>>)
      \o (IF params.tmsID # <<>> THEN << <<"tmsid", "=">> \o params.tmsID >> ELSE <<>>)

ExpectedSearchUrl(dev, keyword, params) ==
    JoinWith(<< dev.url \o <<"/search/browse", "?", "keyword", "=">> \o UriEscape(keyword, TRUE) >>
               \o SearchGroups(params), "&")

\* C18: for a non-empty keyword on a search-capable device that is not
\* limited, the request is a POST to /search/browse?keyword={escaped
\* keyword} followed by the non-default parameters in the order type,
\* show-unavailable, launch, match-any, season, tmsid; what follows, if
\* anything, is the provider-id parameter.
C18_SearchUrlOrder ==
    (Called("rokuSearch") /\ call.in.keyword # <<>>
        /\ device.hasSearchSupport /\ ~device.isLimited)
        => LET url == Spelled(call.sent[1].url)
               exp == ExpectedSearchUrl(device, call.in.keyword, call.in.params)
               rest == SubSeq(url, Len(exp) + 1, Len(url))
           IN  /\ Len(call.sent) = 1
               /\ call.sent[1].method = "POST"
               /\ Len(url) >= Len(exp)
               /\ SubSeq(url, 1, Len(exp)) = exp
               /\ rest = <<>> \/ (Len(rest) >= 2 /\ SubSeq(rest, 1, 2) = <<"&", "provider-id">>)
               /\ (call.in.params = DefaultSearch) =>
                    url = device.url \o <<"/search/browse", "?", "keyword", "=">>
                            \o UriEscape(call.in.keyword, TRUE)

\* Every parameter is set at once.
C18_Witness ==
    /\ Called("rokuSearch")
    /\ device.hasSearchSupport /\ ~device.isLimited
    /\ call.in.keyword = <<"a", " ", "b">>
    /\ call.in.params.type = "SHOW"
    /\ call.in.params.includeUnavailable /\ call.in.params.autoLaunch
    /\ call.in.params.autoSelect
    /\ call.in.params.season = 3
    /\ call.in.params.tmsID # <<>>
    /\ Len(call.sent) = 1

\* The characters of the typed string the locale can encode, with their
\* positions.
TypedPositions == SelectSeq([i \in 1..Len(call.in.string) |-> i],
                            LAMBDA i : call.in.string[i] # "U+2603")

\* The key name sent for a character.
LiteralKey(c) ==
    CASE c = "H" -> <<"Lit_", "H">>
      [] c = "!" -> <<"Lit_", "%", "2", "1">>

\* C19: on a device that is not limited and whose keypresses all succeed,
\* rokuTypeString sends one keypress per encodable character, named Lit_
\* and the percent-escaped character, in string order; a character that
\* cannot be encoded sends nothing and does not end the iteration.
C19_OneKeypressPerCharacter ==
    (Called("rokuTypeString") /\ ~device.isLimited
        /\ \A i \in DOMAIN call.in.outcomes :
              ~call.in.outcomes[i].error /\ call.in.outcomes[i].status = 200)
        => call.sent =
             [k \in 1..Len(TypedPositions) |->
                [method |-> "POST",
                 url |-> device.url \o <<"/keypress/">>
                           \o LiteralKey(call.in.string[TypedPositions[k]])]]

\* An unencodable character first, then one that needs escaping.
C19_Witness ==
    /\ Called("rokuTypeString") /\ ~device.isLimited
    /\ call.in.string = <<"U+2603", "!">>
    /\ call.in.outcomes[2].status = 200
    /\ Len(call.sent) = 1
    /\ call.ret = 0

\* What rokuSendKey returns for the outcome of its request.
KeypressResult(outcome) ==
    IF outcome.error THEN outcome.code
    ELSE IF outcome.status = 200 THEN 0
    ELSE IF outcome.status = 401 THEN -3
    ELSE outcome.status

\* C20: when no keypress of the call reports ECP disabled, rokuTypeString
\* returns the result of the last keypress it sent, and 0 when it sent
\* none.
C20_ResultOfLastKeypress ==
    (Called("rokuTypeString") /\ ~device.isLimited
        /\ \A k \in DOMAIN TypedPositions :
              KeypressResult(call.in.outcomes[TypedPositions[k]]) # -3)
        => call.ret =
             IF TypedPositions = <<>> THEN 0
             ELSE KeypressResult(call.in.outcomes[TypedPositions[Len(TypedPositions)]])

\* A failed keypress followed by a successful one.
C20_Witness ==
    /\ Called("rokuTypeString") /\ ~device.isLimited
    /\ call.in.string = <<"H", "H">>
    /\ call.in.outcomes[1].error
    /\ ~call.in.outcomes[2].error /\ call.in.outcomes[2].status = 200
    /\ Len(call.sent) = 2
    /\ call.ret = 0

\* The places in TypedPositions whose keypress is answered 401.
DisabledAt ==
    {k \in DOMAIN TypedPositions :
        /\ ~call.in.outcomes[TypedPositions[k]].error
        /\ call.in.outcomes[TypedPositions[k]].status = 401}

\* C21: as soon as one keypress of rokuTypeString is answered 401 the call
\* returns -2, and no keypress is sent for any later character.
C21_StopsWhenEcpDisabled ==
    (Called("rokuTypeString") /\ ~device.isLimited /\ DisabledAt # {})
        => LET first == CHOOSE k \in DisabledAt : \A j \in DisabledAt : k <= j
           IN  /\ call.ret = -2
               /\ Len(call.sent) = first

\* The first of two characters is answered 401.
C21_Witness ==
    /\ Called("rokuTypeString") /\ ~device.isLimited
    /\ Len(call.in.string) = 2
    /\ TypedPositions = <<1, 2>>
    /\ 1 \in DisabledAt
    /\ Len(call.sent) = 1
    /\ call.ret = -2

\* The decimal value of the text of the child element called name, 0 when
\* the element is absent.
DecimalOf(el, name) ==
    IF ElementText(el, name) = NULL THEN 0
    ELSE DigitsValue(ElementText(el, name), 1, 0)

\* The element children of a node, in document order.
ElementsOf(node) == SelectSeq(node.children, LAMBDA k : k.type = "element")

DecodedAs(ch, el) ==
    /\ ch.frequency = 1000 * DecimalOf(el, "physical-frequency")
    /\ ch.physicalChannel = DecimalOf(el, "physical-channel")

\* C22: every channel decoded by getRokuTVChannels or
\* getActiveRokuTVChannel has frequency = 1000 times the decimal value of
\* physical-frequency and physicalChannel = the decimal value of
\* physical-channel, each 0 when its element is absent.
C22_FrequencyAndChannelDecoded ==
    /\ (Called("getRokuTVChannels") /\ pc = "returned" /\ call.ret >= 1)
          => \A k \in 1..call.ret :
                DecodedAs(call.out[k], ElementsOf(call.in.outcome.body.root)[k])
    /\ (Called("getActiveRokuTVChannel") /\ pc = "returned" /\ call.ret = 0
          /\ call.sent # <<>> /\ ElementsOf(call.in.outcome.body.root) # <<>>)
          => DecodedAs(channel.channel, ElementsOf(call.in.outcome.body.root)[1])

ApiOps ==
    {"getRokuDevice", "rokuSendKey", "getRokuTVChannels", "getActiveRokuTVChannel",
     "launchRokuTVChannel", "getRokuApps", "getActiveRokuApp", "launchRokuApp",
     "getRokuAppIcon", "sendCustomRokuInput", "rokuSearch", "rokuTypeString"}

\* C23: no call retries.  Every operation but rokuTypeString sends at most
\* one request whatever its outcome, and rokuTypeString sends at most one
\* request per character of its input.
C23_NoRetry ==
    (pc \in {"returned", "crashed"} /\ call.op \in ApiOps)
        => IF call.op = "rokuTypeString"
           THEN Len(call.sent) <= Len(call.in.string)
           ELSE Len(call.sent) <= 1

\* A keypress whose transport failed was sent once.
C23_Witness ==
    /\ Called("rokuSendKey")
    /\ call.in.outcome.error
    /\ call.in.outcome.code # 0
    /\ call.ret = call.in.outcome.code
    /\ Len(call.sent) = 1

\* The bytes the device returned for the icon request, none when the
\* transport failed.
IconBytes(outcome) == IF outcome.error THEN <<>> ELSE outcome.body.bytes

\* C24: for a device that is not limited, whenever getRokuAppIcon returns,
\* icon.data holds the bytes the device returned and icon.size is their
\* number, 0 when the device returned nothing.
C24_IconSizeMatchesData ==
    (Called("getRokuAppIcon") /\ ~device.isLimited)
        => /\ pc = "returned"
           /\ call.out.size = Len(IconBytes(call.in.outcome))
           /\ IconBytes(call.in.outcome) # <<>> => call.out.data = IconBytes(call.in.outcome)

\* The flags of RokuDevice, each with the element it is read from and the
\* text that makes it true.
FlagSentinels ==
    << <<"isOn", "power-mode", T_PowerOn>>,
       <<"isTV", "is-tv", T_true>>,
       <<"developerMode", "developer-enabled", T_true>>,
       <<"hasSearchSupport", "search-enabled", T_true>>,
       <<"hasHeadphoneSupport", "supports-private-listening", T_true>>,
       <<"headphonesConnected", "headphones-connected", T_true>> >>

\* C25: after a successful getRokuDevice each boolean flag is true exactly
\* when the text of its element equals the sentinel character for character
\* ("PowerOn" for isOn, "true" for the others); any other text, a longer
\* text that starts with the sentinel included, and an absent element give
\* false.
C25_FlagsMatchSentinelExactly ==
    GotDeviceInfo
        => \A i \in 1..Len(FlagSentinels) :
               call.out[FlagSentinels[i][1]]
                   = (ElementText(call.in.outcome.body.root, FlagSentinels[i][2])
                        = FlagSentinels[i][3])

\* The same with the overlong text set aside: the flags follow every text
\* that fits its buffer.
C25_FlagsMatchFittingText ==
    (GotDeviceInfo
        /\ ElementText(call.in.outcome.body.root, "is-tv") # T_truex)
        => \A i \in 1..Len(FlagSentinels) :
               call.out[FlagSentinels[i][1]]
                   = (ElementText(call.in.outcome.body.root, FlagSentinels[i][2])
                        = FlagSentinels[i][3])

\* The request was answered 200 with a document that has a root element.
AnsweredWithRoot ==
    /\ call.sent # <<>>
    /\ ~call.in.outcome.error
    /\ call.in.outcome.status = SOUP_STATUS_OK
    /\ HasDoc(call.in.outcome.body)
    /\ HasRoot(call.in.outcome.body)

\* C26: getActiveRokuTVChannel returns -2 for every well-formed response
\* whose root has no channel element, a root whose only children are text
\* or comment nodes included, and reads no field through a missing element.
C26_NoChannelElementGivesMinus2 ==
    (Called("getActiveRokuTVChannel") /\ AnsweredWithRoot
        /\ ElementsOf(call.in.outcome.body.root) = <<>>)
        => pc = "returned" /\ call.ret = -2

\* The part of it the code keeps: a root without any child gives -2.
C26_EmptyRootGivesMinus2 ==
    (Called("getActiveRokuTVChannel") /\ AnsweredWithRoot
        /\ call.in.outcome.body.root.children = <<>>)
        => pc = "returned" /\ call.ret = -2

\* C27: whenever rokuSearch returns -1 the device lacks search support (or
\* is limited) and no request was sent; every outcome of a request that was
\* sent is reported with a value other than -1.
C27_Minus1MeansNoSearchSupport ==
    (Called("rokuSearch") /\ call.ret = -1)
        => /\ ~device.hasSearchSupport \/ device.isLimited
           /\ call.sent = <<>>

\* The converse the code keeps: a device without search support, or a
\* limited one, gets -1 and no request.
C27_NoSearchSupportGivesMinus1 ==
    (Called("rokuSearch") /\ (~device.hasSearchSupport \/ device.isLimited))
        => call.ret = -1 /\ call.sent = <<>>

\* The ids of the eight provider slots rokuSearch reads that are not empty,
\* in slot order.
RECURSIVE NonEmptyProviders(_, _)
NonEmptyProviders(ids, i) ==
    IF i > 8 THEN <<>>
    ELSE (IF ids[i] # <<>> THEN <<ids[i]>> ELSE <<>>) \o NonEmptyProviders(ids, i + 1)

\* TRUE when the spelled url has the spelled text at position k.
HasAt(url, text, k) ==
    /\ k + Len(text) - 1 <= Len(url)
    /\ SubSeq(url, k, k + Len(text) - 1) = text

Contains(url, text) == \E k \in 1..Len(url) : HasAt(url, text, k)

EndsWith(url, text) ==
    Len(url) >= Len(text) /\ HasAt(url, text, Len(url) - Len(text) + 1)

\* C28: the request of rokuSearch carries a provider-id parameter exactly
\* when at least one of the eight provider ids is not empty, and its value
\* is the non-empty ids in slot order joined by commas, wherever in the
\* eight slots they are.
C28_ProviderIdsJoined ==
    (Called("rokuSearch") /\ call.sent # <<>>)
        => LET ids == NonEmptyProviders(call.in.params.providerIDs, 1)
               url == Spelled(call.sent[1].url)
               param == Spell("&provider-id=")
           IN  IF ids = <<>> THEN ~Contains(url, param)
               ELSE EndsWith(url, param \o JoinWith(ids, ","))

\* The same when the first slot is filled: the code writes the ids then.
C28_ProviderIdsJoinedFromFirstSlot ==
    (Called("rokuSearch") /\ call.sent # <<>>
        /\ call.in.params.providerIDs[1] # <<>>)
        => LET ids == NonEmptyProviders(call.in.params.providerIDs, 1)
           IN  EndsWith(Spelled(call.sent[1].url),
                        Spell("&provider-id=") \o JoinWith(ids, ","))

\* C29: in every reachable state of findRokuDevices, for every maxDevices
\* >= 0 and every interleaving of the callbacks (one that runs after the
\* quit request included), the number of entries written is at most
\* maxDevices and no write lands at an index >= maxDevices.
C29_WritesStayInsideList ==
    dpc \in {"running", "returned", "crashed"}
        => /\ Len(disc.written) <= disc.maxDevices
           /\ \A i \in DOMAIN disc.written : disc.written[i] < disc.maxDevices

\* The same for a caller that passes a list of at least one entry, up to
\* the first quit request: until then the writes are inside the list.
C29_WritesInsideListUntilQuit ==
    (dpc = "running" /\ disc.maxDevices >= 1 /\ ~disc.quit)
        => /\ Len(disc.written) <= disc.maxDevices
           /\ \A i \in DOMAIN disc.written : disc.written[i] < disc.maxDevices

\* C30: for a url of any length, one longer than 29 characters included,
\* getRokuDevice stores at most 29 characters and a terminator in
\* device.url and builds its request URL without writing past the end of
\* its fixed 48-byte query-URL buffer.
C30_UrlBuffersNotOverrun ==
    Called("getRokuDevice")
        => /\ Len(device.url) <= SizeUrl - 1
           /\ device.url = Take(call.in.url, SizeUrl - 1)
           /\ call.in.queryURL <= SizeQueryUrl

\* The half the code keeps: device.url never holds more than 29 characters.
C30_DeviceUrlBounded ==
    Called("getRokuDevice")
        => /\ Len(device.url) <= SizeUrl - 1
           /\ device.url = Take(call.in.url, SizeUrl - 1)

\* A url that fits device.url also fits the query-URL buffer.
C30_ShortUrlFits ==
    (Called("getRokuDevice") /\ Len(call.in.url) <= SizeUrl - 1)
        => call.in.queryURL <= SizeQueryUrl

====
